---------------------------- MODULE Spec2Model ----------------------------
(***************************************************************************)
(* A model of the HEIF reader: the box parser (box.cc), the file model     *)
(* (heif_file.cc) and the interpretation of the item graph                 *)
(* (heif_context.cc).                                                      *)
(*                                                                         *)
(* The module holds several specifications, one per part of the program:   *)
(*   SpecParse     HeifFile::parse_heif_file                               *)
(*   SpecChildren  Box::read_children                                      *)
(*   SpecIloc      Box_iloc::parse                                         *)
(*   SpecData      HeifFile::get_compressed_image_data, Box_iloc::read_data*)
(*   SpecInterp    HeifContext::interpret_heif_file                        *)
(* Each specification moves its own variables and leaves the others at     *)
(* their idle value.                                                       *)
(***************************************************************************)
EXTENDS Integers, Sequences, FiniteSets, TLC

VARIABLES
  \* HeifFile::parse_heif_file
  parse_pc,        \* "idle" | "init" | "done"
  parse_input,     \* the byte source: the top-level boxes and how the range ends
  heif_file,       \* the members of HeifFile
  parse_error      \* the Error returned by parse_heif_file

parseVars == <<parse_pc, parse_input, heif_file, parse_error>>

VARIABLES
  \* Box::read_children
  rc_pc,           \* "idle" | "call" | "loop" | "done"
  max_number,      \* the argument max_number
  m_children,      \* m_children.size() of the box that reads its children
  count,           \* the local count
  rc_error         \* the Error returned by read_children

childVars == <<rc_pc, max_number, m_children, count, rc_error>>

VARIABLES
  \* Box_iloc::parse
  iloc_pc,         \* "idle" | "call" | "items" | "done"
  iloc_header,     \* what the box declares: version and the item count field
  item_count,      \* the local int item_count
  iloc_i,          \* the loop variable i
  m_items,         \* m_items: its size and the largest extents.size() in it
  extent_count,    \* the extent count the last item declared
  range_error,     \* range.error() of the content range
  iloc_error       \* the Error returned by Box_iloc::parse

ilocVars == <<iloc_pc, iloc_header, item_count, iloc_i, m_items, extent_count,
              range_error, iloc_error>>

VARIABLES
  \* HeifFile::get_compressed_image_data and Box_iloc::read_data
  gd_pc,           \* "idle" | "call" | "extents" | "done"
  gd_item,         \* the item asked for: its type and its iloc entry
  data,            \* data->size(), the vector the caller passes (empty)
  gd_extents,      \* the extents read_data has gone through
  gd_over,         \* an extent was met whose length would pass the limit
  gd_past_end,     \* an extent was met that reaches past the end of the data
  gd_error         \* the Error returned by get_compressed_image_data

dataVars == <<gd_pc, gd_item, data, gd_extents, gd_over, gd_past_end, gd_error>>

VARIABLES
  \* HeifContext::interpret_heif_file
  ih_pc,               \* "idle" | "start" | "refs" | "resolution" |
                       \* "metadata" | "done" | "crashed"
  m_heif_file,         \* the parsed file the context interprets
  m_all_images,        \* id -> Image
  m_top_level_images,  \* list of image ids
  m_primary_image,     \* id of the primary image, 0 for a null pointer
  ih_cursor,           \* the id the running loop stands at
  iref_linked,         \* images met in iref as from-item of a thmb or auxl
                       \* reference, whatever its position
  props_read,          \* images whose properties the reference loop has
                       \* fetched without error
  ih_error             \* the Error returned by interpret_heif_file

interpVars == <<ih_pc, m_heif_file, m_all_images, m_top_level_images,
                m_primary_image, ih_cursor, iref_linked, props_read, ih_error>>

VARIABLES
  \* Fraction::operator/ and Fraction::round
  fr_pc,           \* "idle" | "call" | "done"
  fr_a,            \* the Fraction a
  fr_k,            \* the divisor
  fr_round         \* (a/k).round()

fracVars == <<fr_pc, fr_a, fr_k, fr_round>>

VARIABLES
  \* the clap step of HeifContext::decode_image
  clap_pc,         \* "idle" | "call" | "clamp" | "done" | "crashed"
  img_size,        \* [width, height] of the decoded image
  clap,            \* the fields of the Box_clap
  clap_window,     \* [left, right, top, bottom]
  crop_called,     \* img->crop was called with clap_window
  clap_error       \* the error decode_image returns

clapVars == <<clap_pc, img_size, clap, clap_window, crop_called, clap_error>>

VARIABLES
  \* Box_hvcC::parse and Box_hvcC::get_headers
  hv_pc,           \* "idle" | "call" | "parsed" | "done"
  hv_content,      \* the bytes of the box from the array count on
  m_nal_array,     \* the arrays stored by parse
  hv_error,        \* range.error() at the end of parse
  dest             \* the bytes written by get_headers

hvccVars == <<hv_pc, hv_content, m_nal_array, hv_error, dest>>

VARIABLES
  \* HeifContext::decode_image of an iovl item
  ov_pc,           \* "idle" | "call" | "loop" | "returned" | "done" | "crashed"
  ov_refs,         \* image_references.size()
  ov_i,            \* the loop index i
  ov_err,          \* the local err of decode_overlay_image
  ov_failed,       \* the errors met so far, raised here or returned by a call
  ov_skipped,      \* the indices whose blit was ignored
  ov_result,       \* the error decode_overlay_image returns
  di_result        \* the error decode_image returns

overlayVars == <<ov_pc, ov_refs, ov_i, ov_err, ov_failed, ov_skipped,
                 ov_result, di_result>>

VARIABLES
  \* the decoder registry of HeifContext and get_decoder
  dp_pc,             \* "idle" | "open" | "done"
  m_decoder_plugins, \* the registered plugins
  plugin_priority,   \* what does_support_format of each plugin returns
  best_plugin,       \* the plugin get_decoder returned, NoPlugin for nullptr
  dp_error           \* the error decode_image returned after get_decoder

pluginVars == <<dp_pc, m_decoder_plugins, plugin_priority, best_plugin, dp_error>>

VARIABLES
  \* Box::read on a parent range
  br_pc,           \* "idle" | "call" | "header" | "done"
  br_range,        \* the parent range: [start, pos, end], offsets in the file
  hdr,             \* the BoxHeader: [m_size, m_type, m_header_size]
  boxrange,        \* the content range: [made, pos, end]
  br_result,       \* *result was assigned
  br_error         \* the error Box::read returns

boxReadVars == <<br_pc, br_range, hdr, boxrange, br_result, br_error>>

VARIABLES
  \* ipco / ipma and Box_ipco::get_properties_for_item_ID
  ip_pc,           \* "idle" | "call" | "opened" | "failed" | "done"
  allProperties,   \* the children of ipco
  m_entries,       \* the entries of ipma: [item_ID, associations]
  ip_images,       \* the IDs of m_all_images
  ip_open_error,   \* the error of the open
  ip_item,         \* the item asked for after the open
  out_properties,  \* the properties returned for it
  ip_error         \* the error returned for it

ipmaVars == <<ip_pc, allProperties, m_entries, ip_images, ip_open_error,
              ip_item, out_properties, ip_error>>

VARIABLES
  \* the resolution loop of interpret_heif_file for one image
  rs_pc,           \* "idle" | "loop" | "done"
  rs_properties,   \* the properties of the image read so far, in ipma order
  ispe_read,       \* the local ispe_read
  rs_size,         \* [width, height] of the image
  rs_error         \* the error the loop returned

resVars == <<rs_pc, rs_properties, ispe_read, rs_size, rs_error>>

VARIABLES
  \* HeifContext::decode_full_grid_image
  gr_pc,           \* "idle" | "call" | "loop" | "done" | "crashed"
  grid,            \* the ImageGrid: [parsed, m_rows, m_columns, m_output_width, m_output_height]
  gr_loop,         \* [x, y, x0, y0, tile_height] of the two loops
  gr_copies,       \* the copies of the last tile, one per channel
  gr_done,         \* [used, allocated, tiles]: getters of grid called, img made, tiles decoded
  gr_error         \* the error decode_full_grid_image returns

gridVars == <<gr_pc, grid, gr_loop, gr_copies, gr_done, gr_error>>

VARIABLES
  \* HeifContext::decode_image and the decoder plugin
  dc_pc,           \* "idle" | "call" | "run" | "done" | "crashed"
  dc_items,        \* the items of the opened file: [type, refs, alpha] by id
  dc_stack,        \* the active calls of decode_image, the innermost last
  dc_result        \* the error the outermost decode_image returns

decodeVars == <<dc_pc, dc_items, dc_stack, dc_result>>

VARIABLES
  \* HeifContext::read_from_file / read_from_memory, called again and again
  context,         \* [m_heif_file, m_all_images, m_top_level_images, m_primary_image]
  open_calls,      \* the number of open calls made on the context
  open_error       \* what the most recent open call returned

openVars == <<context, open_calls, open_error>>

vars == <<parseVars, childVars, ilocVars, dataVars, interpVars, fracVars,
          clapVars, hvccVars, overlayVars, pluginVars, boxReadVars,
          ipmaVars, resVars, gridVars, decodeVars, openVars>>

---------------------------------------------------------------------------
(* Errors: heif::Error is { code, sub_code } (the message is not modelled). *)

Err(code, sub) == [code |-> code, sub |-> sub]

ErrorOk == Err("Ok", "Unspecified")

NoError == Err("none", "none")   \* no call has returned yet

\* The errors a box parser hands to Box::read.
End_of_data == Err("Invalid_input", "End_of_data")
Invalid_box_size == Err("Invalid_input", "Invalid_box_size")
Security_limit_exceeded == Err("Memory_allocation_error", "Security_limit_exceeded")

---------------------------------------------------------------------------
(* Boxes.  A box is a record; every box has every field, so that boxes of  *)
(* any type compare.  err is what the box's own parser returns when it is  *)
(* not a container; a container's error is that of read_children.          *)

NullBox == [type |-> "null", err |-> ErrorOk, children |-> <<>>, brands |-> <<>>,
            handler_type |-> "", item_ID |-> 0]

MkBox(t) == [NullBox EXCEPT !.type = t]

MkErrBox(t, e) == [NullBox EXCEPT !.type = t, !.err = e]

MkContainer(t, ch) == [NullBox EXCEPT !.type = t, !.children = ch]

ContainerTypes == {"meta", "iprp", "ipco", "iinf", "dinf"}

\* Box::get_child_box: the first child of the given type, or nullptr.
get_child_box(box, short_type) ==
  LET idx == {i \in DOMAIN box.children : box.children[i].type = short_type}
  IN IF idx = {} THEN NullBox
     ELSE box.children[CHOOSE i \in idx : \A j \in idx : i <= j]

\* Box::get_child_boxes: all children of the given type, in order.
get_child_boxes(box, short_type) ==
  SelectSeq(box.children, LAMBDA c : c.type = short_type)

\* A has_compatible_brand that looks at the first brand only.
has_compatible_brand_first(ftyp, brand) ==
  Len(ftyp.brands) > 0 /\ ftyp.brands[1] = brand

\* Box_ftyp::has_compatible_brand.
has_compatible_brand(ftyp, brand) ==
  \E i \in DOMAIN ftyp.brands : ftyp.brands[i] = brand

\* The error Box::read returns for a box: a container's parser is
\* read_children, which returns the error of the first child whose
\* Box::read fails; every other parser returns its own error.
RECURSIVE BoxReadError(_)
BoxReadError(box) ==
  IF box.type \in ContainerTypes
  THEN LET bad == {i \in DOMAIN box.children : BoxReadError(box.children[i]) # ErrorOk}
       IN IF bad = {} THEN box.err
          ELSE BoxReadError(box.children[CHOOSE i \in bad : \A j \in bad : i <= j])
  ELSE box.err


---------------------------------------------------------------------------
(* HeifFile (heif_file.cc).                                                *)

FreshHeifFile ==
  [m_top_level_boxes |-> <<>>,
   m_ftyp_box |-> NullBox, m_meta_box |-> NullBox,
   m_ipco_box |-> NullBox, m_ipma_box |-> NullBox, m_iloc_box |-> NullBox,
   m_idat_box |-> NullBox, m_iref_box |-> NullBox,
   m_primary_image_ID |-> 0,
   m_images |-> <<>>]

READ_CHILDREN_ALL == -1

---------------------------------------------------------------------------
(* Every specification moves the variables of one part; the variables of   *)
(* the other parts rest at their idle value.                               *)

ParseIdle ==
  /\ parse_pc = "idle"
  /\ parse_input = [boxes |-> <<>>, atEnd |-> FALSE]
  /\ heif_file = FreshHeifFile
  /\ parse_error = NoError

ChildIdle ==
  /\ rc_pc = "idle" /\ max_number = READ_CHILDREN_ALL
  /\ m_children = 0 /\ count = 0 /\ rc_error = NoError

IlocIdle ==
  /\ iloc_pc = "idle"
  /\ iloc_header = [version |-> 0, hi |-> 0, lo |-> 0]
  /\ item_count = 0 /\ iloc_i = 0
  /\ m_items = [size |-> 0, max_extents |-> 0]
  /\ extent_count = 0 /\ range_error = FALSE /\ iloc_error = NoError

NoItem == [item_type |-> "", construction_method |-> 0, idat |-> FALSE]

DataIdle ==
  /\ gd_pc = "idle" /\ gd_item = NoItem /\ data = 0
  /\ gd_extents = 0 /\ gd_over = FALSE /\ gd_past_end = FALSE
  /\ gd_error = NoError

\* No file is interpreted yet.
NoFile == [items |-> <<>>, m_primary_image_ID |-> 0, iref |-> FALSE]

InterpIdle ==
  /\ ih_pc = "idle" /\ m_heif_file = NoFile /\ m_all_images = <<>>
  /\ m_top_level_images = <<>> /\ m_primary_image = 0 /\ ih_cursor = 0
  /\ iref_linked = {} /\ props_read = {} /\ ih_error = NoError

FracIdle ==
  /\ fr_pc = "idle" /\ fr_a = [numerator |-> 0, denominator |-> 1]
  /\ fr_k = 1 /\ fr_round = 0

NoClap ==
  [m_clean_aperture_width |-> [numerator |-> 0, denominator |-> 1],
   m_clean_aperture_height |-> [numerator |-> 0, denominator |-> 1],
   m_horizontal_offset |-> [numerator |-> 0, denominator |-> 1],
   m_vertical_offset |-> [numerator |-> 0, denominator |-> 1]]

NoWindow == [left |-> 0, right |-> 0, top |-> 0, bottom |-> 0]

ClapIdle ==
  /\ clap_pc = "idle" /\ img_size = [width |-> 0, height |-> 0]
  /\ clap = NoClap /\ clap_window = NoWindow
  /\ crop_called = FALSE /\ clap_error = NoError

HvccIdle ==
  /\ hv_pc = "idle" /\ hv_content = <<>> /\ m_nal_array = <<>>
  /\ hv_error = FALSE /\ dest = <<>>

OverlayIdle ==
  /\ ov_pc = "idle" /\ ov_refs = 0 /\ ov_i = 0 /\ ov_err = NoError
  /\ ov_failed = {} /\ ov_skipped = {} /\ ov_result = NoError
  /\ di_result = NoError

PluginIdle ==
  /\ dp_pc = "idle" /\ m_decoder_plugins = {} /\ plugin_priority = <<>>
  /\ best_plugin = 0 /\ dp_error = NoError

NoHeader == [m_size |-> 0, m_type |-> "", m_header_size |-> 0]

NoRange == [made |-> FALSE, pos |-> 0, end |-> 0]

BoxReadIdle ==
  /\ br_pc = "idle" /\ br_range = [start |-> 0, pos |-> 0, end |-> 0]
  /\ hdr = NoHeader /\ boxrange = NoRange
  /\ br_result = FALSE /\ br_error = NoError

IpmaIdle ==
  /\ ip_pc = "idle" /\ allProperties = <<>> /\ m_entries = <<>>
  /\ ip_images = {} /\ ip_open_error = NoError
  /\ ip_item = 0 /\ out_properties = <<>> /\ ip_error = NoError

ResIdle ==
  /\ rs_pc = "idle" /\ rs_properties = <<>> /\ ispe_read = FALSE
  /\ rs_size = [width |-> 0, height |-> 0] /\ rs_error = NoError

NoGrid ==
  [parsed |-> FALSE, m_rows |-> 0, m_columns |-> 0,
   m_output_width |-> 0, m_output_height |-> 0]

GridIdle ==
  /\ gr_pc = "idle" /\ grid = NoGrid
  /\ gr_loop = [x |-> 0, y |-> 0, x0 |-> 0, y0 |-> 0, tile_height |-> 0]
  /\ gr_copies = <<>>
  /\ gr_done = [used |-> FALSE, allocated |-> FALSE, tiles |-> 0]
  /\ gr_error = NoError

DecodeIdle ==
  /\ dc_pc = "idle" /\ dc_items = <<>> /\ dc_stack = <<>> /\ dc_result = NoError

NoOpenFile == [items |-> <<>>, pitm |-> 0, parsed |-> NoError]

OpenIdle ==
  /\ context = [m_heif_file |-> NoOpenFile, m_all_images |-> {},
                m_top_level_images |-> <<>>, m_primary_image |-> 0]
  /\ open_calls = 0 /\ open_error = NoError

ParseOthersIdle ==
  /\ ChildIdle
  /\ IlocIdle
  /\ DataIdle
  /\ InterpIdle
  /\ FracIdle
  /\ ClapIdle
  /\ HvccIdle
  /\ OverlayIdle
  /\ PluginIdle
  /\ BoxReadIdle
  /\ IpmaIdle
  /\ ResIdle
  /\ GridIdle
  /\ DecodeIdle
  /\ OpenIdle
ParseFrame == UNCHANGED <<childVars, ilocVars, dataVars, interpVars,
    fracVars, clapVars, hvccVars, overlayVars, pluginVars, boxReadVars,
    ipmaVars, resVars, gridVars, decodeVars, openVars>>

ChildOthersIdle ==
  /\ ParseIdle
  /\ IlocIdle
  /\ DataIdle
  /\ InterpIdle
  /\ FracIdle
  /\ ClapIdle
  /\ HvccIdle
  /\ OverlayIdle
  /\ PluginIdle
  /\ BoxReadIdle
  /\ IpmaIdle
  /\ ResIdle
  /\ GridIdle
  /\ DecodeIdle
  /\ OpenIdle
ChildFrame == UNCHANGED <<parseVars, ilocVars, dataVars, interpVars,
    fracVars, clapVars, hvccVars, overlayVars, pluginVars, boxReadVars,
    ipmaVars, resVars, gridVars, decodeVars, openVars>>

IlocOthersIdle ==
  /\ ParseIdle
  /\ ChildIdle
  /\ DataIdle
  /\ InterpIdle
  /\ FracIdle
  /\ ClapIdle
  /\ HvccIdle
  /\ OverlayIdle
  /\ PluginIdle
  /\ BoxReadIdle
  /\ IpmaIdle
  /\ ResIdle
  /\ GridIdle
  /\ DecodeIdle
  /\ OpenIdle
IlocFrame == UNCHANGED <<parseVars, childVars, dataVars, interpVars,
    fracVars, clapVars, hvccVars, overlayVars, pluginVars, boxReadVars,
    ipmaVars, resVars, gridVars, decodeVars, openVars>>

DataOthersIdle ==
  /\ ParseIdle
  /\ ChildIdle
  /\ IlocIdle
  /\ InterpIdle
  /\ FracIdle
  /\ ClapIdle
  /\ HvccIdle
  /\ OverlayIdle
  /\ PluginIdle
  /\ BoxReadIdle
  /\ IpmaIdle
  /\ ResIdle
  /\ GridIdle
  /\ DecodeIdle
  /\ OpenIdle
DataFrame == UNCHANGED <<parseVars, childVars, ilocVars, interpVars,
    fracVars, clapVars, hvccVars, overlayVars, pluginVars, boxReadVars,
    ipmaVars, resVars, gridVars, decodeVars, openVars>>

InterpOthersIdle ==
  /\ ParseIdle
  /\ ChildIdle
  /\ IlocIdle
  /\ DataIdle
  /\ FracIdle
  /\ ClapIdle
  /\ HvccIdle
  /\ OverlayIdle
  /\ PluginIdle
  /\ BoxReadIdle
  /\ IpmaIdle
  /\ ResIdle
  /\ GridIdle
  /\ DecodeIdle
  /\ OpenIdle
InterpFrame == UNCHANGED <<parseVars, childVars, ilocVars, dataVars,
    fracVars, clapVars, hvccVars, overlayVars, pluginVars, boxReadVars,
    ipmaVars, resVars, gridVars, decodeVars, openVars>>

FracOthersIdle ==
  /\ ParseIdle
  /\ ChildIdle
  /\ IlocIdle
  /\ DataIdle
  /\ InterpIdle
  /\ ClapIdle
  /\ HvccIdle
  /\ OverlayIdle
  /\ PluginIdle
  /\ BoxReadIdle
  /\ IpmaIdle
  /\ ResIdle
  /\ GridIdle
  /\ DecodeIdle
  /\ OpenIdle
FracFrame == UNCHANGED <<parseVars, childVars, ilocVars, dataVars,
    interpVars, clapVars, hvccVars, overlayVars, pluginVars, boxReadVars,
    ipmaVars, resVars, gridVars, decodeVars, openVars>>

ClapOthersIdle ==
  /\ ParseIdle
  /\ ChildIdle
  /\ IlocIdle
  /\ DataIdle
  /\ InterpIdle
  /\ FracIdle
  /\ HvccIdle
  /\ OverlayIdle
  /\ PluginIdle
  /\ BoxReadIdle
  /\ IpmaIdle
  /\ ResIdle
  /\ GridIdle
  /\ DecodeIdle
  /\ OpenIdle
ClapFrame == UNCHANGED <<parseVars, childVars, ilocVars, dataVars,
    interpVars, fracVars, hvccVars, overlayVars, pluginVars, boxReadVars,
    ipmaVars, resVars, gridVars, decodeVars, openVars>>

HvccOthersIdle ==
  /\ ParseIdle
  /\ ChildIdle
  /\ IlocIdle
  /\ DataIdle
  /\ InterpIdle
  /\ FracIdle
  /\ ClapIdle
  /\ OverlayIdle
  /\ PluginIdle
  /\ BoxReadIdle
  /\ IpmaIdle
  /\ ResIdle
  /\ GridIdle
  /\ DecodeIdle
  /\ OpenIdle
HvccFrame == UNCHANGED <<parseVars, childVars, ilocVars, dataVars,
    interpVars, fracVars, clapVars, overlayVars, pluginVars, boxReadVars,
    ipmaVars, resVars, gridVars, decodeVars, openVars>>

OverlayOthersIdle ==
  /\ ParseIdle
  /\ ChildIdle
  /\ IlocIdle
  /\ DataIdle
  /\ InterpIdle
  /\ FracIdle
  /\ ClapIdle
  /\ HvccIdle
  /\ PluginIdle
  /\ BoxReadIdle
  /\ IpmaIdle
  /\ ResIdle
  /\ GridIdle
  /\ DecodeIdle
  /\ OpenIdle
OverlayFrame == UNCHANGED <<parseVars, childVars, ilocVars, dataVars,
    interpVars, fracVars, clapVars, hvccVars, pluginVars, boxReadVars,
    ipmaVars, resVars, gridVars, decodeVars, openVars>>

PluginOthersIdle ==
  /\ ParseIdle
  /\ ChildIdle
  /\ IlocIdle
  /\ DataIdle
  /\ InterpIdle
  /\ FracIdle
  /\ ClapIdle
  /\ HvccIdle
  /\ OverlayIdle
  /\ BoxReadIdle
  /\ IpmaIdle
  /\ ResIdle
  /\ GridIdle
  /\ DecodeIdle
  /\ OpenIdle
PluginFrame == UNCHANGED <<parseVars, childVars, ilocVars, dataVars,
    interpVars, fracVars, clapVars, hvccVars, overlayVars, boxReadVars,
    ipmaVars, resVars, gridVars, decodeVars, openVars>>

BoxReadOthersIdle ==
  /\ ParseIdle
  /\ ChildIdle
  /\ IlocIdle
  /\ DataIdle
  /\ InterpIdle
  /\ FracIdle
  /\ ClapIdle
  /\ HvccIdle
  /\ OverlayIdle
  /\ PluginIdle
  /\ IpmaIdle
  /\ ResIdle
  /\ GridIdle
  /\ DecodeIdle
  /\ OpenIdle
BoxReadFrame == UNCHANGED <<parseVars, childVars, ilocVars, dataVars,
    interpVars, fracVars, clapVars, hvccVars, overlayVars, pluginVars,
    ipmaVars, resVars, gridVars, decodeVars, openVars>>

IpmaOthersIdle ==
  /\ ParseIdle
  /\ ChildIdle
  /\ IlocIdle
  /\ DataIdle
  /\ InterpIdle
  /\ FracIdle
  /\ ClapIdle
  /\ HvccIdle
  /\ OverlayIdle
  /\ PluginIdle
  /\ BoxReadIdle
  /\ ResIdle
  /\ GridIdle
  /\ DecodeIdle
  /\ OpenIdle
IpmaFrame == UNCHANGED <<parseVars, childVars, ilocVars, dataVars,
    interpVars, fracVars, clapVars, hvccVars, overlayVars, pluginVars,
    boxReadVars, resVars, gridVars, decodeVars, openVars>>

ResOthersIdle ==
  /\ ParseIdle
  /\ ChildIdle
  /\ IlocIdle
  /\ DataIdle
  /\ InterpIdle
  /\ FracIdle
  /\ ClapIdle
  /\ HvccIdle
  /\ OverlayIdle
  /\ PluginIdle
  /\ BoxReadIdle
  /\ IpmaIdle
  /\ GridIdle
  /\ DecodeIdle
  /\ OpenIdle
ResFrame == UNCHANGED <<parseVars, childVars, ilocVars, dataVars,
    interpVars, fracVars, clapVars, hvccVars, overlayVars, pluginVars,
    boxReadVars, ipmaVars, gridVars, decodeVars, openVars>>

GridOthersIdle ==
  /\ ParseIdle
  /\ ChildIdle
  /\ IlocIdle
  /\ DataIdle
  /\ InterpIdle
  /\ FracIdle
  /\ ClapIdle
  /\ HvccIdle
  /\ OverlayIdle
  /\ PluginIdle
  /\ BoxReadIdle
  /\ IpmaIdle
  /\ ResIdle
  /\ DecodeIdle
  /\ OpenIdle
GridFrame == UNCHANGED <<parseVars, childVars, ilocVars, dataVars,
    interpVars, fracVars, clapVars, hvccVars, overlayVars, pluginVars,
    boxReadVars, ipmaVars, resVars, decodeVars, openVars>>

DecodeOthersIdle ==
  /\ ParseIdle
  /\ ChildIdle
  /\ IlocIdle
  /\ DataIdle
  /\ InterpIdle
  /\ FracIdle
  /\ ClapIdle
  /\ HvccIdle
  /\ OverlayIdle
  /\ PluginIdle
  /\ BoxReadIdle
  /\ IpmaIdle
  /\ ResIdle
  /\ GridIdle
  /\ OpenIdle
DecodeFrame == UNCHANGED <<parseVars, childVars, ilocVars, dataVars,
    interpVars, fracVars, clapVars, hvccVars, overlayVars, pluginVars,
    boxReadVars, ipmaVars, resVars, gridVars, openVars>>

OpenOthersIdle ==
  /\ ParseIdle
  /\ ChildIdle
  /\ IlocIdle
  /\ DataIdle
  /\ InterpIdle
  /\ FracIdle
  /\ ClapIdle
  /\ HvccIdle
  /\ OverlayIdle
  /\ PluginIdle
  /\ BoxReadIdle
  /\ IpmaIdle
  /\ ResIdle
  /\ GridIdle
  /\ DecodeIdle
OpenFrame == UNCHANGED <<parseVars, childVars, ilocVars, dataVars,
    interpVars, fracVars, clapVars, hvccVars, overlayVars, pluginVars,
    boxReadVars, ipmaVars, resVars, gridVars, decodeVars>>

---------------------------------------------------------------------------

\* The last box of a type in a list: the loop of parse_heif_file overwrites
\* m_meta_box and m_ftyp_box with every box of that type it stores.
LastOfType(boxes, short_type) ==
  LET idx == {i \in DOMAIN boxes : boxes[i].type = short_type}
  IN IF idx = {} THEN NullBox
     ELSE boxes[CHOOSE i \in idx : \A j \in idx : j <= i]

\* The number of boxes the loop of parse_heif_file stores before it breaks:
\* it breaks, before the push_back, at the first box whose Box::read fails,
\* and at a box after which the range is at its end (atEnd: the range ends
\* exactly with the last box); otherwise it ends at the failing read of the
\* header that follows the last box.
StoredTopLevel(boxes, atEnd) ==
  LET n == Len(boxes)
      bad == {i \in 1..n : BoxReadError(boxes[i]) # ErrorOk}
  IN IF bad # {} THEN (CHOOSE i \in bad : \A j \in bad : i <= j) - 1
     ELSE IF atEnd /\ n > 0 THEN n - 1
     ELSE n

\* std::map::insert of (item_ID, infe): kept in key order, an existing key
\* is left as it is.
MapInsert(m, infe) ==
  IF \E i \in DOMAIN m : m[i].item_ID = infe.item_ID THEN m
  ELSE LET k == Cardinality({i \in DOMAIN m : m[i].item_ID < infe.item_ID})
       IN SubSeq(m, 1, k) \o <<infe>> \o SubSeq(m, k + 1, Len(m))

RECURSIVE InsertAll(_, _)
InsertAll(m, infes) ==
  IF infes = <<>> THEN m ELSE InsertAll(MapInsert(m, Head(infes)), Tail(infes))

\* The structural checks of parse_heif_file, in the order of the code; each
\* returns at once.  The result is the HeifFile as the return leaves it and
\* the Error returned.
CheckStructure(f0) ==
  LET meta == f0.m_meta_box
      hdlr_box == get_child_box(meta, "hdlr")
      pitm_box == get_child_box(meta, "pitm")
      iprp_box == get_child_box(meta, "iprp")
      f1 == [f0 EXCEPT !.m_ipco_box = get_child_box(iprp_box, "ipco")]
      f2 == [f1 EXCEPT !.m_ipma_box = get_child_box(iprp_box, "ipma")]
      f3 == [f2 EXCEPT !.m_iloc_box = get_child_box(meta, "iloc")]
      f4 == [f3 EXCEPT !.m_idat_box = get_child_box(meta, "idat"),
                       !.m_iref_box = get_child_box(meta, "iref")]
      iinf_box == get_child_box(meta, "iinf")
      f5 == [f4 EXCEPT !.m_primary_image_ID = pitm_box.item_ID,
                       !.m_images = InsertAll(<<>>, get_child_boxes(iinf_box, "infe"))]
  IN IF f0.m_ftyp_box = NullBox
       THEN [file |-> f0, err |-> Err("Invalid_input", "No_ftyp_box")]
     ELSE IF ~ has_compatible_brand(f0.m_ftyp_box, "heic")
       THEN [file |-> f0, err |-> Err("Unsupported_filetype", "Unspecified")]
     ELSE IF meta = NullBox
       THEN [file |-> f0, err |-> Err("Invalid_input", "No_meta_box")]
     ELSE IF hdlr_box = NullBox
       THEN [file |-> f0, err |-> Err("Invalid_input", "No_hdlr_box")]
     ELSE IF hdlr_box.handler_type # "pict"
       THEN [file |-> f0, err |-> Err("Invalid_input", "No_pict_handler")]
     ELSE IF pitm_box = NullBox
       THEN [file |-> f0, err |-> Err("Invalid_input", "No_pitm_box")]
     ELSE IF iprp_box = NullBox
       THEN [file |-> f0, err |-> Err("Invalid_input", "No_iprp_box")]
     ELSE IF f1.m_ipco_box = NullBox
       THEN [file |-> f1, err |-> Err("Invalid_input", "No_ipco_box")]
     ELSE IF f2.m_ipma_box = NullBox
       THEN [file |-> f2, err |-> Err("Invalid_input", "No_ipma_box")]
     ELSE IF f3.m_iloc_box = NullBox
       THEN [file |-> f3, err |-> Err("Invalid_input", "No_iloc_box")]
     ELSE IF iinf_box = NullBox
       THEN [file |-> f4, err |-> Err("Invalid_input", "No_iinf_box")]
     ELSE [file |-> f5, err |-> ErrorOk]

\* HeifFile::parse_heif_file on a range holding `boxes`.
parse_heif_file(boxes, atEnd) ==
  LET top == SubSeq(boxes, 1, StoredTopLevel(boxes, atEnd))
      f0 == [FreshHeifFile EXCEPT !.m_top_level_boxes = top,
                                  !.m_meta_box = LastOfType(top, "meta"),
                                  !.m_ftyp_box = LastOfType(top, "ftyp")]
  IN CheckStructure(f0)


---------------------------------------------------------------------------
(* The files parse_heif_file is run on.                                    *)

MaxTrailing == 1     \* boxes that follow the meta box

SeqsUpTo(S, n) == UNION {[1..k -> S] : k \in 0..n}

FtypBox(brands) == [MkBox("ftyp") EXCEPT !.brands = brands]
HdlrBox(handler) == [MkBox("hdlr") EXCEPT !.handler_type = handler]
PitmBox(id) == [MkBox("pitm") EXCEPT !.item_ID = id]
InfeBox(id) == [MkBox("infe") EXCEPT !.item_ID = id]

FtypChoices ==
  {<<>>, <<FtypBox(<<"heic">>)>>, <<FtypBox(<<"mif1">>)>>,
   <<FtypBox(<<"mif1", "heic">>)>>, <<MkErrBox("ftyp", Invalid_box_size)>>}
HdlrChoices ==
  {<<>>, <<HdlrBox("pict")>>, <<HdlrBox("vide")>>, <<HdlrBox("vide"), HdlrBox("pict")>>}
PitmChoices == {<<>>, <<PitmBox(1)>>}
IlocChoices == {<<>>, <<MkBox("iloc")>>, <<MkErrBox("iloc", Security_limit_exceeded)>>}
IinfChoices == {<<>>, <<MkContainer("iinf", <<InfeBox(2), InfeBox(1), InfeBox(2)>>)>>}
IprpChoices ==
  {<<>>, <<MkContainer("iprp", <<>>)>>,
   <<MkContainer("iprp", <<MkBox("ipco")>>)>>,
   <<MkContainer("iprp", <<MkBox("ipma")>>)>>,
   <<MkContainer("iprp", <<MkBox("ipco"), MkBox("ipma")>>)>>,
   <<MkContainer("iprp", <<MkErrBox("ipco", Security_limit_exceeded), MkBox("ipma")>>)>>}
IdatChoices == {<<>>, <<MkBox("idat")>>}
IrefChoices == {<<>>, <<MkBox("iref")>>}

MetaChoices ==
  {<<>>} \cup
  {<<MkContainer("meta", h \o p \o l \o i \o pr \o d \o r)>> :
     h \in HdlrChoices, p \in PitmChoices, l \in IlocChoices, i \in IinfChoices,
     pr \in IprpChoices, d \in IdatChoices, r \in IrefChoices}

TrailingBoxes ==
  {MkBox("mdat"), MkErrBox("mdat", End_of_data),
   MkErrBox("iloc", Security_limit_exceeded),
   FtypBox(<<"mif1">>), MkContainer("meta", <<>>)}

TrailingChoices == SeqsUpTo(TrailingBoxes, MaxTrailing)

---------------------------------------------------------------------------
(* SpecParse: one HeifFile, read once.                                     *)

ParseInit ==
  /\ parse_pc = "init"
  /\ parse_input = [boxes |-> <<>>, atEnd |-> FALSE]
  /\ heif_file = FreshHeifFile
  /\ parse_error = NoError
  /\ ParseOthersIdle

RunParse(boxes, atEnd) ==
  LET r == parse_heif_file(boxes, atEnd)
  IN /\ parse_pc' = "done"
     /\ parse_input' = [boxes |-> boxes, atEnd |-> atEnd]
     /\ heif_file' = r.file
     /\ parse_error' = r.err
     /\ ParseFrame

\* HeifFile::read_from_file: the range has the largest length there is, so
\* it is never at its end after a box.
HeifFile_read_from_file ==
  /\ parse_pc = "init"
  /\ \E pre \in FtypChoices, m \in MetaChoices, post \in TrailingChoices :
       RunParse(pre \o m \o post, FALSE)

\* HeifFile::read_from_memory: the range has the length of the buffer; it is
\* at its end after the last box unless bytes follow that box.
HeifFile_read_from_memory ==
  /\ parse_pc = "init"
  /\ \E pre \in FtypChoices, m \in MetaChoices, post \in TrailingChoices :
       \E trailingBytes \in BOOLEAN : RunParse(pre \o m \o post, ~ trailingBytes)

ParseNext == HeifFile_read_from_file \/ HeifFile_read_from_memory


---------------------------------------------------------------------------
(* Claims about parse_heif_file.                                           *)

OfType(boxes, short_type) == SelectSeq(boxes, LAMBDA b : b.type = short_type)

HasType(boxes, short_type) == \E i \in DOMAIN boxes : boxes[i].type = short_type

\* The outcome the structural requirements give for the boxes the file
\* model holds: the error of the first requirement that fails, in the
\* order ftyp, heic brand, meta, hdlr, pict handler, pitm, iprp, ipco, ipma,
\* iloc, iinf; Ok when all are met.  idat and iref are not among them.
C1_Required ==
  LET top == heif_file.m_top_level_boxes
      ftyps == OfType(top, "ftyp")
      metas == OfType(top, "meta")
      brands == IF ftyps = <<>> THEN <<>> ELSE ftyps[Len(ftyps)].brands
      mc == IF metas = <<>> THEN <<>> ELSE metas[Len(metas)].children
      hdlrs == OfType(mc, "hdlr")
      iprps == OfType(mc, "iprp")
      pc == IF iprps = <<>> THEN <<>> ELSE iprps[1].children
  IN << <<ftyps # <<>>, Err("Invalid_input", "No_ftyp_box")>>,
        <<\E i \in DOMAIN brands : brands[i] = "heic",
          Err("Unsupported_filetype", "Unspecified")>>,
        <<metas # <<>>, Err("Invalid_input", "No_meta_box")>>,
        <<hdlrs # <<>>, Err("Invalid_input", "No_hdlr_box")>>,
        <<hdlrs # <<>> /\ hdlrs[1].handler_type = "pict",
          Err("Invalid_input", "No_pict_handler")>>,
        <<HasType(mc, "pitm"), Err("Invalid_input", "No_pitm_box")>>,
        <<iprps # <<>>, Err("Invalid_input", "No_iprp_box")>>,
        <<HasType(pc, "ipco"), Err("Invalid_input", "No_ipco_box")>>,
        <<HasType(pc, "ipma"), Err("Invalid_input", "No_ipma_box")>>,
        <<HasType(mc, "iloc"), Err("Invalid_input", "No_iloc_box")>>,
        <<HasType(mc, "iinf"), Err("Invalid_input", "No_iinf_box")>> >>

C1_Expected ==
  LET failed == {k \in DOMAIN C1_Required : ~ C1_Required[k][1]}
  IN IF failed = {} THEN ErrorOk
     ELSE C1_Required[CHOOSE k \in failed : \A j \in failed : k <= j][2]

\* The file itself holds every required box.
C1_FileHasAll ==
  LET boxes == parse_input.boxes
  IN /\ \E i \in DOMAIN boxes :
          /\ boxes[i].type = "ftyp"
          /\ \E k \in DOMAIN boxes[i].brands : boxes[i].brands[k] = "heic"
     /\ \E i \in DOMAIN boxes :
          LET mc == boxes[i].children
          IN /\ boxes[i].type = "meta"
             /\ \E k \in DOMAIN mc : mc[k].type = "hdlr" /\ mc[k].handler_type = "pict"
             /\ HasType(mc, "pitm") /\ HasType(mc, "iloc") /\ HasType(mc, "iinf")
             /\ \E k \in DOMAIN mc :
                  /\ mc[k].type = "iprp"
                  /\ HasType(mc[k].children, "ipco")
                  /\ HasType(mc[k].children, "ipma")

SecurityLimitHit(boxes) ==
  \E i \in DOMAIN boxes :
    /\ BoxReadError(boxes[i]) = Security_limit_exceeded
    /\ \A j \in 1..(i - 1) : BoxReadError(boxes[j]) = ErrorOk

\* C2: when a box of the file violates a security limit while it is parsed,
\* opening the file returns an error with sub-code Security_limit_exceeded.
C2_SecurityLimitSurfaces ==
  (parse_pc = "done" /\ SecurityLimitHit(parse_input.boxes)) =>
    parse_error.sub = "Security_limit_exceeded"


---------------------------------------------------------------------------
(* Box::read_children (box.cc), one action per turn of its loop.  The      *)
(* content range is an input: at every turn it is at its end, in error, or *)
(* holds another box, whose Box::read succeeds or fails.                   *)

MAX_CHILDREN_PER_BOX == 1024

MaxChildBoxes == 1030    \* child boxes in one content range
MaxNumberArg == 2        \* the largest max_number a caller passes

\* The sanity check of read_children, made before the push_back.
ChildLimitReached(size) == size > MAX_CHILDREN_PER_BOX

ChildInit ==
  /\ rc_pc = "call" /\ max_number = READ_CHILDREN_ALL
  /\ m_children = 0 /\ count = 0 /\ rc_error = NoError
  /\ ChildOthersIdle

\* The call: a parser calls read_children on its fresh box.
read_children_call ==
  /\ rc_pc = "call"
  /\ \E n \in {READ_CHILDREN_ALL} \cup 0..MaxNumberArg : max_number' = n
  /\ rc_pc' = "loop"
  /\ UNCHANGED <<m_children, count, rc_error>>
  /\ ChildFrame

\* The loop condition fails: the range is at its end or in error, and
\* read_children returns range.get_error().
read_children_end ==
  /\ rc_pc = "loop"
  /\ \E e \in {ErrorOk, End_of_data} : rc_error' = e
  /\ rc_pc' = "done"
  /\ UNCHANGED <<max_number, m_children, count>>
  /\ ChildFrame

\* Box::read of the next child fails: its error is returned.
read_children_child_error ==
  /\ rc_pc = "loop"
  /\ count < MaxChildBoxes
  /\ \E e \in {End_of_data, Invalid_box_size, Security_limit_exceeded} : rc_error' = e
  /\ rc_pc' = "done"
  /\ UNCHANGED <<max_number, m_children, count>>
  /\ ChildFrame

\* Box::read of the next child succeeds and the limit check fires.
read_children_limit ==
  /\ rc_pc = "loop"
  /\ count < MaxChildBoxes
  /\ ChildLimitReached(m_children)
  /\ rc_error' = Security_limit_exceeded
  /\ rc_pc' = "done"
  /\ UNCHANGED <<max_number, m_children, count>>
  /\ ChildFrame

\* Box::read of the next child succeeds and the child is stored; the loop
\* breaks when count reaches max_number.
read_children_push ==
  /\ rc_pc = "loop"
  /\ count < MaxChildBoxes
  /\ ~ ChildLimitReached(m_children)
  /\ m_children' = m_children + 1
  /\ count' = count + 1
  /\ IF max_number # READ_CHILDREN_ALL /\ count' = max_number
       THEN /\ rc_pc' = "done"
            /\ \E e \in {ErrorOk, End_of_data} : rc_error' = e
       ELSE /\ rc_pc' = "loop"
            /\ rc_error' = rc_error
  /\ UNCHANGED max_number
  /\ ChildFrame

ChildNext ==
  \/ read_children_call
  \/ read_children_end
  \/ read_children_child_error
  \/ read_children_limit
  \/ read_children_push

\* C3: after every call of read_children the box holds at most 1,024
\* children.
C3_AtMost1024Children ==
  rc_pc = "done" => m_children <= 1024

---------------------------------------------------------------------------
(* Box_iloc::parse (box.cc), one action per turn of the loop over the      *)
(* items.  A 32-bit field is held as its two 16-bit halves (hi, lo), so    *)
(* that no value leaves the integers the checker computes with.            *)

MAX_ILOC_ITEMS == 1024
MAX_ILOC_EXTENTS_PER_ITEM == 32

\* The conversion of the uint32_t that read32 returns to int: values of
\* 2^31 and above become negative (two's complement).
ToInt32(hi, lo) ==
  IF hi >= 32768 THEN (hi - 65536) * 65536 + lo ELSE hi * 65536 + lo

\* int item_count = range.read16() (version < 2) or range.read32().
ItemCountValue(version, hi, lo) ==
  IF version < 2 THEN lo ELSE ToInt32(hi, lo)

\* The item counts and extent counts the boxes declare.
ItemCounts16 == {0, 1, 2, 1023, 1024, 1025, 65535}
ItemCounts32 ==
  {<<0, c>> : c \in ItemCounts16} \cup
  {<<1, 0>>, <<32767, 65535>>, <<32768, 0>>, <<32768, 5>>, <<65535, 65535>>}
ExtentCounts == {0, 1, 2, 32, 33, 65535}

Max(a, b) == IF a >= b THEN a ELSE b

IlocInit ==
  /\ iloc_pc = "call"
  /\ iloc_header = [version |-> 0, hi |-> 0, lo |-> 0]
  /\ item_count = 0 /\ iloc_i = 0
  /\ m_items = [size |-> 0, max_extents |-> 0]
  /\ extent_count = 0 /\ range_error = FALSE /\ iloc_error = NoError
  /\ IlocOthersIdle

\* The header of the box up to the check of item_count.  A range that ends
\* before the count is in error and the count reads as 0.
Box_iloc_parse_header ==
  /\ iloc_pc = "call"
  /\ \E version \in 0..2, cut \in BOOLEAN :
       \E c \in IF version < 2 THEN {<<0, x>> : x \in ItemCounts16} ELSE ItemCounts32 :
         LET hi == IF cut THEN 0 ELSE c[1]
             lo == IF cut THEN 0 ELSE c[2]
             n == ItemCountValue(version, hi, lo)
         IN /\ iloc_header' = [version |-> version, hi |-> hi, lo |-> lo]
            /\ item_count' = n
            /\ range_error' = cut
            /\ IF n > MAX_ILOC_ITEMS
                 THEN iloc_pc' = "done" /\ iloc_error' = Security_limit_exceeded
                 ELSE iloc_pc' = "items" /\ iloc_error' = iloc_error
  /\ UNCHANGED <<iloc_i, m_items, extent_count>>
  /\ IlocFrame

\* One turn of the loop on a range that is not in error: the item declares
\* an extent count; the range may end before the count (it then reads as 0)
\* or within the item; the item is stored when the range is not in error.
Box_iloc_parse_item ==
  /\ iloc_pc = "items"
  /\ iloc_i < item_count
  /\ ~ range_error
  /\ \E declared \in ExtentCounts, cut \in {"no", "before_count", "in_item"} :
       LET ec == IF cut = "before_count" THEN 0 ELSE declared
       IN /\ extent_count' = ec
          /\ IF ec > MAX_ILOC_EXTENTS_PER_ITEM
               THEN /\ iloc_pc' = "done"
                    /\ iloc_error' = Security_limit_exceeded
                    /\ range_error' = (cut = "in_item")
                    /\ UNCHANGED <<iloc_i, m_items>>
               ELSE /\ range_error' = (cut # "no")
                    /\ iloc_i' = iloc_i + 1
                    /\ m_items' = IF cut = "no"
                                    THEN [size |-> m_items.size + 1,
                                          max_extents |-> Max(m_items.max_extents, ec)]
                                    ELSE m_items
                    /\ UNCHANGED <<iloc_pc, iloc_error>>
  /\ UNCHANGED <<iloc_header, item_count>>
  /\ IlocFrame

\* The turns of the loop on a range in error: every read returns 0, so each
\* item declares 0 extents and none is stored.
Box_iloc_parse_items_in_error ==
  /\ iloc_pc = "items"
  /\ iloc_i < item_count
  /\ range_error
  /\ iloc_i' = item_count
  /\ extent_count' = 0
  /\ UNCHANGED <<iloc_pc, iloc_header, item_count, m_items, range_error, iloc_error>>
  /\ IlocFrame

\* The loop is over: return range.get_error().
Box_iloc_parse_return ==
  /\ iloc_pc = "items"
  /\ iloc_i >= item_count
  /\ iloc_pc' = "done"
  /\ iloc_error' = IF range_error THEN End_of_data ELSE ErrorOk
  /\ UNCHANGED <<iloc_header, item_count, iloc_i, m_items, extent_count, range_error>>
  /\ IlocFrame

IlocNext ==
  \/ Box_iloc_parse_header
  \/ Box_iloc_parse_item
  \/ Box_iloc_parse_items_in_error
  \/ Box_iloc_parse_return

\* C4: Box_iloc::parse returns Security_limit_exceeded for every declared
\* item count above 1,024 (16-bit or 32-bit, 2^31 and above included) and
\* for every declared extent count above 32; a box that parses without
\* error holds at most 1,024 items with at most 32 extents each.
C4_IlocLimits ==
  iloc_pc = "done" =>
    /\ (iloc_header.hi > 0 \/ iloc_header.lo > 1024) =>
         iloc_error = Security_limit_exceeded
    /\ extent_count > 32 => iloc_error = Security_limit_exceeded
    /\ iloc_error = ErrorOk => m_items.size <= 1024 /\ m_items.max_extents <= 32

---------------------------------------------------------------------------
(* HeifFile::get_compressed_image_data (heif_file.cc) with                 *)
(* Box_hvcC::get_headers, Box_iloc::read_data and Box_idat::read_data      *)
(* (box.cc): one action for the part before read_data, one per extent.     *)
(* Only the size of the byte vector is held.  Sizes are in bytes; every    *)
(* size of the model is below 2^31.                                        *)

MAX_MEMORY_BLOCK_SIZE == 52428800    \* 50*1024*1024

MaxExtentsRead == 3      \* extents of the item asked for

\* The hvcC boxes: nunits NAL units of unit_size bytes each (a unit is at
\* most 65,535 bytes long, its length field has 16 bits).
HvcCBoxes ==
  {[nunits |-> n, unit_size |-> sz] : n \in {0, 1, 3, 799, 800}, sz \in {1, 65535}}

\* Box_hvcC::get_headers: every unit is appended after 4 bytes of length.
get_headers(size, hvcC) == size + hvcC.nunits * (4 + hvcC.unit_size)

\* The check `MAX_MEMORY_BLOCK_SIZE - old_size < extent.length` of
\* Box_iloc::read_data and Box_idat::read_data.  old_size is a size_t, so
\* the difference is unsigned: when old_size is above the limit it wraps to
\* 2^N - (old_size - limit), N the width of size_t, which is above every
\* length of the model, and the check does not fire.
OverLimit(old_size, length) ==
  IF old_size <= MAX_MEMORY_BLOCK_SIZE
    THEN MAX_MEMORY_BLOCK_SIZE - old_size < length
    ELSE FALSE

ExtentLengths == {0, 1, 1000, MAX_MEMORY_BLOCK_SIZE, MAX_MEMORY_BLOCK_SIZE + 1}

\* What the stream does at an extent: the seek and the read succeed, the
\* seek leaves the stream at eof, or the read ends at eof.
StreamOutcomes == {"ok", "eof_at_seek", "eof_at_read"}

DataInit ==
  /\ gd_pc = "call" /\ gd_item = NoItem /\ data = 0
  /\ gd_extents = 0 /\ gd_over = FALSE /\ gd_past_end = FALSE
  /\ gd_error = NoError
  /\ DataOthersIdle

DataReturn(err) ==
  /\ gd_pc' = "done"
  /\ gd_error' = err

\* get_compressed_image_data up to the call of read_data.
get_compressed_image_data ==
  /\ gd_pc = "call"
  /\ UNCHANGED <<gd_extents, gd_over, gd_past_end>>
  /\ DataFrame
  /\ \/ \* the ID is not in m_images
        /\ DataReturn(Err("Usage_error", "Nonexisting_image_referenced"))
        /\ UNCHANGED <<gd_item, data>>
     \/ \* the ID has no entry in iloc
        /\ DataReturn(Err("Invalid_input", "No_item_data"))
        /\ UNCHANGED <<gd_item, data>>
     \/ \E t \in {"hvc1", "grid", "iovl", "Exif", "iden"}, cm \in 0..2, idat \in BOOLEAN :
          /\ gd_item' = [item_type |-> t, construction_method |-> cm, idat |-> idat]
          /\ IF t = "hvc1"
               THEN \/ \* get_properties_for_item_ID fails
                       /\ \E sub \in {"No_properties_assigned_to_item",
                                      "Ipma_box_references_nonexisting_property"} :
                            DataReturn(Err("Invalid_input", sub))
                       /\ UNCHANGED data
                    \/ \* no hvcC among the properties
                       /\ DataReturn(Err("Invalid_input", "No_hvcC_box"))
                       /\ UNCHANGED data
                    \/ \E hvcC \in HvcCBoxes :
                         /\ data' = get_headers(data, hvcC)
                         /\ gd_pc' = "extents"
                         /\ UNCHANGED gd_error
             ELSE IF t \in {"grid", "iovl", "Exif"}
               THEN /\ gd_pc' = "extents"
                    /\ UNCHANGED <<data, gd_error>>
             ELSE /\ DataReturn(Err("Unsupported_feature", "Unsupported_codec"))
                  /\ UNCHANGED data

\* Box_iloc::read_data, one extent of an item with construction method 0.
read_data_file_extent ==
  /\ gd_pc = "extents"
  /\ gd_extents < MaxExtentsRead
  /\ gd_item.construction_method = 0
  /\ gd_extents' = gd_extents + 1
  /\ UNCHANGED gd_item
  /\ DataFrame
  /\ \E length \in ExtentLengths, stream \in StreamOutcomes :
       IF stream = "eof_at_seek"
         THEN /\ data' = 0
              /\ DataReturn(End_of_data)
              /\ gd_past_end' = TRUE
              /\ UNCHANGED gd_over
       ELSE /\ gd_over' = (gd_over \/ data + length > MAX_MEMORY_BLOCK_SIZE)
            /\ gd_past_end' = (gd_past_end \/
                                 (stream = "eof_at_read" /\ ~OverLimit(data, length)))
            /\ IF OverLimit(data, length)
                 THEN /\ DataReturn(Security_limit_exceeded)
                      /\ UNCHANGED data
               ELSE /\ data' = data + length
                    /\ IF stream = "eof_at_read"
                         THEN DataReturn(End_of_data)
                         ELSE UNCHANGED <<gd_pc, gd_error>>

\* Box_iloc::read_data, one extent of an item with construction method 1:
\* Box_idat::read_data is called and what it returns is dropped.
\* Box_idat::read_data does not look at the state of the stream after its
\* seek and its read.
read_data_idat_extent ==
  /\ gd_pc = "extents"
  /\ gd_extents < MaxExtentsRead
  /\ gd_item.construction_method = 1
  /\ gd_extents' = gd_extents + 1
  /\ UNCHANGED gd_item
  /\ DataFrame
  /\ IF ~ gd_item.idat
       THEN /\ DataReturn(Err("Invalid_input", "No_idat_box"))
            /\ UNCHANGED <<data, gd_over, gd_past_end>>
     ELSE \E length \in ExtentLengths, stream \in StreamOutcomes :
            /\ gd_over' = (gd_over \/ data + length > MAX_MEMORY_BLOCK_SIZE)
            /\ gd_past_end' = (gd_past_end \/ stream = "eof_at_seek" \/
                                 (stream = "eof_at_read" /\ ~OverLimit(data, length)))
            /\ data' = IF OverLimit(data, length) THEN data ELSE data + length
            /\ UNCHANGED <<gd_pc, gd_error>>

\* Box_iloc::read_data, one extent of an item with another construction
\* method: neither branch is taken.
read_data_other_extent ==
  /\ gd_pc = "extents"
  /\ gd_extents < MaxExtentsRead
  /\ gd_item.construction_method \notin {0, 1}
  /\ gd_extents' = gd_extents + 1
  /\ UNCHANGED <<gd_pc, gd_item, data, gd_over, gd_past_end, gd_error>>
  /\ DataFrame

\* The item has no further extent: read_data returns Ok.
read_data_return ==
  /\ gd_pc = "extents"
  /\ DataReturn(ErrorOk)
  /\ UNCHANGED <<gd_item, data, gd_extents, gd_over, gd_past_end>>
  /\ DataFrame

DataNext ==
  \/ get_compressed_image_data
  \/ read_data_file_extent
  \/ read_data_idat_extent
  \/ read_data_other_extent
  \/ read_data_return

\* C5: the byte vector filled by get_compressed_image_data never holds more
\* than 50 MiB, whatever the outcome, and an extent whose length would push
\* the total past 50 MiB is not read and makes the fetch return
\* Security_limit_exceeded.
C5_AtMost50MiB ==
  /\ data <= MAX_MEMORY_BLOCK_SIZE
  /\ (gd_pc = "done" /\ gd_over) => gd_error = Security_limit_exceeded

\* C19: Box_iloc::read_data returns an error for every extent that breaks a
\* bound, for both construction methods: Security_limit_exceeded for an
\* extent whose length would pass the 50 MiB limit, End_of_data for an
\* extent that reaches past the end of the data; it never returns Ok after
\* such an extent.
C19_BrokenExtentIsAnError ==
  gd_pc = "done" /\ gd_item.construction_method \in {0, 1} =>
    /\ gd_over \/ gd_past_end => gd_error # ErrorOk
    /\ gd_over /\ ~gd_past_end => gd_error = Security_limit_exceeded
    /\ gd_past_end /\ ~gd_over => gd_error = End_of_data

---------------------------------------------------------------------------
(* HeifContext::interpret_heif_file (heif_context.cc), run by              *)
(* read_from_file and read_from_memory after HeifFile has parsed the file  *)
(* without error.  One action for the first loop and the primary check,    *)
(* one per image of the reference loop, one for the resolution loop, one   *)
(* per item of the metadata loop.                                          *)
(*                                                                         *)
(* The file is held as its item table (m_images: every id with the type    *)
(* and the hidden flag of its infe box), the id of pitm and whether an     *)
(* iref box is there.  The content of iref is read where the code reads    *)
(* it: Box_iref::get_reference_type(id) and get_references(id) look only   *)
(* at the references whose from_item_ID is id, and every id is looked up   *)
(* in one iteration only, so the step of an item draws the references of   *)
(* that item, in file order: up to the first one, or all of them where it  *)
(* is recorded whether a later one is a thmb or auxl reference.  The same  *)
(* holds for the properties of an image and for the bytes of an Exif       *)
(* item.  Image sizes and the depth representation info are not held.      *)

MaxItemID == 3        \* the items of the file have the ids 1..MaxItemID
MaxRefsPerItem == 2   \* references in iref with the same from_item_ID

ItemIDs == 1..MaxItemID

item_type_is_image(item_type) ==
  \/ item_type = "hvc1"
  \/ item_type = "grid"
  \/ item_type = "iden"
  \/ item_type = "iovl"

\* The infe boxes of the items: is_hidden_item is read for image items
\* only.
InfeBoxes ==
  {[item_type |-> "hvc1", hidden |-> FALSE], [item_type |-> "grid", hidden |-> TRUE],
   [item_type |-> "Exif", hidden |-> FALSE]}

\* The references of one item: type and to_item_ID of each.
ToLists == {<<>>, <<1, 2>>} \cup {<<t>> : t \in ItemIDs}

ReferenceTypes == {"thmb", "auxl", "cdsc", "dimg"}

References == [type : ReferenceTypes, to_item_ID : ToLists]

\* The targets of a reference that is not the first of its item are never
\* read: they are held empty.
LaterReferences == [type : ReferenceTypes, to_item_ID : {<<>>}]

RefLists ==
  {<<>>} \cup {<<r>> \o later : r \in References,
                                later \in SeqsUpTo(LaterReferences, MaxRefsPerItem - 1)}

\* The references of an item up to the first one: what the code looks at.
FirstRefLists == {<<>>} \cup {<<r>> : r \in References}

\* Box_iref::get_reference_type: the type of the first reference of the
\* item, 0 when it has none.
get_reference_type(refs) == IF refs = <<>> THEN "0" ELSE refs[1].type

\* Box_iref::get_references: the targets of the first reference of the item.
get_references(refs) == IF refs = <<>> THEN <<>> ELSE refs[1].to_item_ID

\* The item is the from-item of a thmb or auxl reference somewhere in iref.
HasLink(refs) == \E k \in 1..Len(refs) : refs[k].type \in {"thmb", "auxl"}

\* HeifContext::Image after its constructor.
NewImage(id) ==
  [m_id |-> id, m_is_primary |-> FALSE,
   m_is_thumbnail |-> FALSE, m_thumbnail_ref_id |-> 0,
   m_is_alpha_channel |-> FALSE, m_alpha_channel_ref_id |-> 0,
   m_is_depth_channel |-> FALSE, m_depth_channel_ref_id |-> 0,
   m_thumbnails |-> <<>>, m_alpha_channel |-> 0, m_depth_channel |-> 0,
   m_has_depth_representation_info |-> FALSE,
   m_metadata |-> <<>>]

ImageIDs == DOMAIN m_all_images

\* The first id of S above id, 0 when there is none: the step of an
\* iteration over a std::map or over the id list taken from one.
NextID(S, id) ==
  IF {i \in S : i > id} = {} THEN 0
  ELSE CHOOSE i \in S : i > id /\ \A j \in S : j > id => i <= j

RECURSIVE IDsFrom(_, _)
IDsFrom(S, id) ==
  IF NextID(S, id) = 0 THEN <<>>
  ELSE <<NextID(S, id)>> \o IDsFrom(S, NextID(S, id))

\* HeifContext::remove_top_level_image
remove_top_level_image(list, image) == SelectSeq(list, LAMBDA img : img # image)

\* The test of the first loop that makes an image the primary image.
PrimaryCandidate_visible(id, infe, primary_ID) == ~ infe.hidden

PrimaryCandidate(id, infe, primary_ID) == ~ infe.hidden /\ id = primary_ID

\* The aux types that make an auxiliary image an alpha channel.
IsAlphaAuxType(aux_type) ==
  \/ aux_type = "urn:mpeg:avc:2015:auxid:1"
  \/ aux_type = "urn:mpeg:hevc:2015:auxid:1"

\* The aux type that makes an auxiliary image a depth channel.
IsDepthAuxType_hevc(aux_type) ==
  \/ aux_type = "urn:mpeg:hevc:2015:auxid:1"
  \/ aux_type = "urn:mpeg:hevc:2015:auxid:2"

IsDepthAuxType(aux_type) == aux_type = "urn:mpeg:hevc:2015:auxid:2"

AuxTypes == {"urn:mpeg:hevc:2015:auxid:1", "urn:mpeg:hevc:2015:auxid:2",
             "urn:mpeg:avc:2015:auxid:2"}

\* What HeifFile::get_properties gives for an image: an error, or the
\* properties, of which the aux types of the auxC boxes are held, in order.
PropertyErrors ==
  {Err("Invalid_input", "No_properties_assigned_to_item"),
   Err("Invalid_input", "Ipma_box_references_nonexisting_property")}

MaxAuxC == 1          \* auxC boxes among the properties of one image

PropertyResults ==
  [err : PropertyErrors, auxC : {<<>>}]
    \cup [err : {ErrorOk}, auxC : SeqsUpTo(AuxTypes, MaxAuxC)]

\* The errors HeifFile::get_compressed_image_data can give for an item of
\* m_images of type Exif.
ExifFetchErrors ==
  {Err("Invalid_input", "No_item_data"), End_of_data,
   Security_limit_exceeded, Err("Invalid_input", "No_idat_box")}

InterpInit ==
  /\ ih_pc = "start" /\ m_heif_file = NoFile /\ m_all_images = <<>>
  /\ m_top_level_images = <<>> /\ m_primary_image = 0 /\ ih_cursor = 0
  /\ iref_linked = {} /\ props_read = {} /\ ih_error = NoError
  /\ InterpOthersIdle

InterpReturn(err) ==
  /\ ih_pc' = "done"
  /\ ih_cursor' = 0
  /\ ih_error' = err

\* The reference loop goes to the next image, or ends.
NextImage ==
  /\ ih_cursor' = NextID(ImageIDs, ih_cursor)
  /\ ih_pc' = IF NextID(ImageIDs, ih_cursor) = 0 THEN "resolution" ELSE "refs"
  /\ UNCHANGED ih_error

\* The first loop, over m_heif_file->get_item_IDs(), and the check of
\* m_primary_image.
interpret_collect_images ==
  /\ ih_pc = "start"
  /\ InterpFrame
  /\ UNCHANGED <<iref_linked, props_read>>
  /\ \E items \in [ItemIDs -> InfeBoxes], primary_ID \in ItemIDs, iref \in BOOLEAN :
       LET images == {id \in ItemIDs : item_type_is_image(items[id].item_type)}
           shown == {id \in images : ~ items[id].hidden}
           primary == {id \in images : PrimaryCandidate(id, items[id], primary_ID)}
           last_primary == IF primary = {} THEN 0
                           ELSE CHOOSE id \in primary : \A j \in primary : j <= id
       IN /\ m_heif_file' = [items |-> items, m_primary_image_ID |-> primary_ID,
                             iref |-> iref]
          /\ m_all_images' =
               IF images = {} THEN <<>>
               ELSE [id \in images |->
                      [NewImage(id) EXCEPT !.m_is_primary = (id \in primary)]]
          /\ m_top_level_images' = IDsFrom(shown, 0)
          /\ m_primary_image' = last_primary
          /\ IF last_primary = 0
               THEN InterpReturn(Err("Invalid_input", "Nonexisting_image_referenced"))
             ELSE IF iref
               THEN /\ ih_pc' = "refs"
                    /\ ih_cursor' = NextID(images, 0)
                    /\ UNCHANGED ih_error
             ELSE /\ ih_pc' = "resolution"
                  /\ ih_cursor' = 0
                  /\ UNCHANGED ih_error

\* One iteration of the reference loop, the image is the from-item of a
\* thmb reference that is the first of its references.
interpret_thumbnail ==
  /\ ih_pc = "refs"
  /\ InterpFrame
  /\ UNCHANGED <<m_heif_file, m_primary_image, props_read>>
  /\ \E item_refs \in FirstRefLists :
       /\ get_reference_type(item_refs) = "thmb"
       /\ iref_linked' = iref_linked \cup {ih_cursor}
       /\ LET image == ih_cursor
              refs == get_references(item_refs)
              marked == [m_all_images EXCEPT ![image].m_is_thumbnail = TRUE,
                                             ![image].m_thumbnail_ref_id = refs[1]]
          IN IF Len(refs) # 1
               THEN /\ InterpReturn(Err("Invalid_input", "Unspecified"))
                    /\ UNCHANGED <<m_all_images, m_top_level_images>>
             ELSE IF refs[1] \notin ImageIDs
               THEN /\ InterpReturn(Err("Invalid_input", "Nonexisting_image_referenced"))
                    /\ m_all_images' = marked
                    /\ UNCHANGED m_top_level_images
             ELSE IF marked[refs[1]].m_is_thumbnail
               THEN /\ InterpReturn(Err("Invalid_input", "Nonexisting_image_referenced"))
                    /\ m_all_images' = marked
                    /\ UNCHANGED m_top_level_images
             ELSE /\ m_all_images' =
                       [marked EXCEPT ![refs[1]].m_thumbnails = Append(@, image)]
                  /\ m_top_level_images' =
                       remove_top_level_image(m_top_level_images, image)
                  /\ NextImage

\* The last auxC box among the properties, "" when there is none.
LastAuxC(auxC) == IF auxC = <<>> THEN "" ELSE auxC[Len(auxC)]

\* The roles the aux type gives to an auxiliary image with target ref.
AuxMarked(images, image, aux_type, ref) ==
  LET alpha == IF IsAlphaAuxType(aux_type)
                 THEN [images EXCEPT ![image].m_is_alpha_channel = TRUE,
                                     ![image].m_alpha_channel_ref_id = ref]
                 ELSE images
  IN IF IsDepthAuxType(aux_type)
       THEN [alpha EXCEPT ![image].m_is_depth_channel = TRUE,
                          ![image].m_depth_channel_ref_id = ref]
       ELSE alpha

\* set_alpha_channel and set_depth_channel on the target, which is in the
\* table.
AuxAttached(images, image, aux_type, ref) ==
  LET alpha == IF IsAlphaAuxType(aux_type)
                 THEN [images EXCEPT ![ref].m_alpha_channel = image]
                 ELSE images
  IN IF IsDepthAuxType(aux_type)
       THEN [alpha EXCEPT ![ref].m_depth_channel = image]
       ELSE alpha

\* image->set_depth_representation_info for an image whose aux type is the
\* depth type, when decode_hevc_aux_sei_messages found a
\* depth_representation_info SEI (payload id 177) in the subtypes of its
\* auxC box.
DepthInfoSet(images, image, aux_type, depth_sei) ==
  IF IsDepthAuxType(aux_type) /\ depth_sei
    THEN [images EXCEPT ![image].m_has_depth_representation_info = TRUE]
    ELSE images

\* One iteration of the reference loop, the image is the from-item of an
\* auxl reference that is the first of its references.  When the target is
\* not in the table, m_all_images.find gives end() and the code goes
\* through it: the behaviour is undefined, the run ends there (a crash) or
\* goes on with the table as it is.
interpret_auxiliary ==
  /\ ih_pc = "refs"
  /\ InterpFrame
  /\ UNCHANGED <<m_heif_file, m_primary_image>>
  /\ \E item_refs \in FirstRefLists :
       /\ get_reference_type(item_refs) = "auxl"
       /\ iref_linked' = iref_linked \cup {ih_cursor}
       /\ \E properties \in PropertyResults, depth_sei \in BOOLEAN :
            /\ ih_cursor \in props_read => properties.err = ErrorOk
            /\ depth_sei => IsDepthAuxType(LastAuxC(properties.auxC))
            /\ LET image == ih_cursor
                   refs == get_references(item_refs)
                   aux_type == LastAuxC(properties.auxC)
                   marked == DepthInfoSet(
                               AuxMarked(m_all_images, image, aux_type, refs[1]),
                               image, aux_type, depth_sei)
                   role == IsAlphaAuxType(aux_type) \/ IsDepthAuxType(aux_type)
               IN IF properties.err # ErrorOk
                    THEN /\ InterpReturn(properties.err)
                         /\ UNCHANGED <<m_all_images, m_top_level_images, props_read>>
                  ELSE
                    /\ props_read' = props_read \cup {image}
                    /\ IF aux_type = ""
                         THEN /\ InterpReturn(Err("Invalid_input",
                                                  "Auxiliary_image_type_unspecified"))
                              /\ UNCHANGED <<m_all_images, m_top_level_images>>
                       ELSE IF Len(refs) # 1
                         THEN /\ InterpReturn(Err("Invalid_input", "Unspecified"))
                              /\ UNCHANGED <<m_all_images, m_top_level_images>>
                       ELSE IF role /\ refs[1] \notin ImageIDs
                         THEN \/ /\ ih_pc' = "crashed"
                                 /\ m_all_images' = marked
                                 /\ UNCHANGED <<m_top_level_images, ih_cursor, ih_error>>
                              \/ /\ m_all_images' = marked
                                 /\ m_top_level_images' =
                                      remove_top_level_image(m_top_level_images, image)
                                 /\ NextImage
                       ELSE /\ m_all_images' =
                                 IF role
                                   THEN AuxAttached(marked, image, aux_type, refs[1])
                                   ELSE marked
                            /\ m_top_level_images' =
                                 remove_top_level_image(m_top_level_images, image)
                            /\ NextImage

\* One iteration of the reference loop, the first reference of the image
\* is neither thmb nor auxl, or it has none: it stays a top-level image.
interpret_normal_image ==
  /\ ih_pc = "refs"
  /\ InterpFrame
  /\ UNCHANGED <<m_heif_file, m_all_images, m_top_level_images,
                 m_primary_image, props_read>>
  /\ \E item_refs \in RefLists :
       /\ get_reference_type(item_refs) \notin {"thmb", "auxl"}
       /\ iref_linked' =
            IF HasLink(item_refs) THEN iref_linked \cup {ih_cursor} ELSE iref_linked
       /\ NextImage

\* The loop over m_all_images that reads the properties of every image:
\* the first failure is returned.  An ispe of INT_MAX or more gives
\* Security_limit_exceeded.
interpret_resolutions ==
  /\ ih_pc = "resolution"
  /\ InterpFrame
  /\ UNCHANGED <<m_heif_file, m_all_images, m_top_level_images,
                 m_primary_image, iref_linked, props_read>>
  /\ \/ /\ ImageIDs \ props_read # {}
        /\ \E err \in PropertyErrors : InterpReturn(err)
     \/ InterpReturn(Security_limit_exceeded)
     \/ /\ ih_pc' = "metadata"
        /\ ih_cursor' = NextID(DOMAIN m_heif_file.items, 0)
        /\ UNCHANGED ih_error

\* The metadata loop goes to the next item, or interpret_heif_file returns
\* Ok.
NextItem ==
  LET next == NextID(DOMAIN m_heif_file.items, ih_cursor)
  IN IF next = 0
       THEN InterpReturn(ErrorOk)
       ELSE /\ ih_cursor' = next
            /\ UNCHANGED <<ih_pc, ih_error>>

\* One iteration of the metadata loop, the item is of type Exif.
interpret_exif_item ==
  /\ ih_pc = "metadata"
  /\ m_heif_file.items[ih_cursor].item_type = "Exif"
  /\ InterpFrame
  /\ UNCHANGED <<m_heif_file, m_top_level_images, m_primary_image,
                 iref_linked, props_read>>
  /\ \/ \* get_compressed_image_data fails
        /\ \E err \in ExifFetchErrors : InterpReturn(err)
        /\ UNCHANGED m_all_images
     \/ \* no iref box
        /\ ~ m_heif_file.iref
        /\ NextItem
        /\ UNCHANGED m_all_images
     \/ /\ m_heif_file.iref
        /\ \E item_refs \in FirstRefLists :
             LET refs == get_references(item_refs)
             IN IF get_reference_type(item_refs) # "cdsc"
                  THEN /\ NextItem
                       /\ UNCHANGED m_all_images
                ELSE IF Len(refs) # 1
                  THEN /\ InterpReturn(Err("Invalid_input", "Unspecified"))
                       /\ UNCHANGED m_all_images
                ELSE IF refs[1] \notin ImageIDs
                  THEN /\ InterpReturn(Err("Invalid_input",
                                           "Nonexisting_image_referenced"))
                       /\ UNCHANGED m_all_images
                ELSE /\ m_all_images' =
                          [m_all_images EXCEPT ![refs[1]].m_metadata = Append(@, ih_cursor)]
                     /\ NextItem

\* One iteration of the metadata loop, the item is of another type.
interpret_other_item ==
  /\ ih_pc = "metadata"
  /\ m_heif_file.items[ih_cursor].item_type # "Exif"
  /\ NextItem
  /\ InterpFrame
  /\ UNCHANGED <<m_heif_file, m_all_images, m_top_level_images,
                 m_primary_image, iref_linked, props_read>>

InterpNext ==
  \/ interpret_collect_images
  \/ interpret_thumbnail
  \/ interpret_auxiliary
  \/ interpret_normal_image
  \/ interpret_resolutions
  \/ interpret_exif_item
  \/ interpret_other_item

\* interpret_heif_file has returned Ok.
InterpOk == ih_pc = "done" /\ ih_error = ErrorOk

\* C6: after interpret_heif_file has returned Ok, the target of every
\* image marked thumbnail-of is an image of the table that is not itself
\* marked as a thumbnail.
C6_ThumbnailTargets ==
  InterpOk =>
    \A x \in ImageIDs :
      m_all_images[x].m_is_thumbnail =>
        /\ m_all_images[x].m_thumbnail_ref_id \in ImageIDs
        /\ ~ m_all_images[m_all_images[x].m_thumbnail_ref_id].m_is_thumbnail

Roles(img) ==
  {r \in {"thumbnail", "alpha", "depth"} :
     \/ r = "thumbnail" /\ img.m_is_thumbnail
     \/ r = "alpha" /\ img.m_is_alpha_channel
     \/ r = "depth" /\ img.m_is_depth_channel}

\* C7: in every state of the image table, every image has at most one of
\* the roles thumbnail-of, alpha-channel-of and depth-channel-of.
C7_AtMostOneRole ==
  \A x \in ImageIDs : Cardinality(Roles(m_all_images[x])) <= 1

\* interpret_heif_file has returned Ok and the table holds a thumbnail, an
\* alpha channel and a depth channel.
C7_Witness ==
  /\ InterpOk
  /\ \A r \in {"thumbnail", "alpha", "depth"} :
       \E x \in ImageIDs : r \in Roles(m_all_images[x])

\* pitm names an image item of the file.
PitmNamesImage ==
  /\ m_heif_file.m_primary_image_ID \in DOMAIN m_heif_file.items
  /\ item_type_is_image(m_heif_file.items[m_heif_file.m_primary_image_ID].item_type)

\* C8: after interpret_heif_file has returned Ok the primary image is an
\* image of the table, its id is the id of pitm and it is the only image
\* flagged is_primary; when no image item has the id of pitm,
\* interpret_heif_file returns Nonexisting_image_referenced.
C8_PrimaryImage ==
  /\ InterpOk =>
       /\ m_primary_image \in ImageIDs
       /\ m_primary_image = m_heif_file.m_primary_image_ID
       /\ \A x \in ImageIDs : m_all_images[x].m_is_primary <=> x = m_primary_image
  /\ (ih_pc = "done" /\ ~ PitmNamesImage) =>
       ih_error = Err("Invalid_input", "Nonexisting_image_referenced")

\* interpret_heif_file has returned Ok on a file with several images,
\* hidden ones among them.
C8_Witness ==
  /\ InterpOk
  /\ Cardinality(ImageIDs) >= 2
  /\ \E x \in ImageIDs : m_heif_file.items[x].hidden

TopLevelSet == {m_top_level_images[k] : k \in 1..Len(m_top_level_images)}

\* C9: after interpret_heif_file has returned Ok the top-level list holds
\* exactly the non-hidden images that are the from-item of no thmb and no
\* auxl reference; no image with a role and no hidden image is in it,
\* every entry is in the table and no image is in it twice.
C9_TopLevelImages ==
  InterpOk =>
    /\ TopLevelSet =
         {x \in ImageIDs : ~ m_heif_file.items[x].hidden /\ x \notin iref_linked}
    /\ \A x \in TopLevelSet :
         /\ x \in ImageIDs
         /\ Roles(m_all_images[x]) = {}
         /\ ~ m_heif_file.items[x].hidden
    /\ Cardinality(TopLevelSet) = Len(m_top_level_images)

ExifItems ==
  {e \in DOMAIN m_heif_file.items : m_heif_file.items[e].item_type = "Exif"}

AttachedTo(e) ==
  {x \in ImageIDs :
     \E k \in 1..Len(m_all_images[x].m_metadata) : m_all_images[x].m_metadata[k] = e}

\* C10: after interpret_heif_file has returned Ok, every item of type Exif
\* is attached as metadata to exactly one image.
C10_ExifAttached ==
  InterpOk => \A e \in ExifItems : Cardinality(AttachedTo(e)) = 1

\* C20: after interpret_heif_file has returned Ok, for every image D with an
\* auxl reference to T and an auxC box of the depth type whose subtypes hold
\* a depth_representation_info SEI (the images for which
\* set_depth_representation_info was called): D is marked depth-of(T), the
\* depth child of T is D, D is not top-level, and the depth representation
\* info is attached to T.
C20_DepthInfoOnTarget ==
  InterpOk =>
    \A d \in ImageIDs :
      m_all_images[d].m_has_depth_representation_info =>
        /\ m_all_images[d].m_is_depth_channel
        /\ d \notin TopLevelSet
        /\ m_all_images[d].m_depth_channel_ref_id \in ImageIDs
        /\ m_all_images[m_all_images[d].m_depth_channel_ref_id].m_depth_channel = d
        /\ m_all_images[m_all_images[d].m_depth_channel_ref_id]
              .m_has_depth_representation_info

---------------------------------------------------------------------------
(* Fraction (box.cc): a pair of ints.  The values of the model are small,  *)
(* no operation on them leaves the range of an int.                        *)

Fraction(num, den) == [numerator |-> num, denominator |-> den]

Abs(x) == IF x < 0 THEN -x ELSE x

\* The division of two ints in C++: the quotient is cut toward zero.  A
\* division by zero is undefined: a build either traps (an action of its own
\* where a denominator can be zero) or goes on with the 0 of a divide
\* instruction that does not trap, which is the value given here.
IntDiv(a, b) ==
  IF b = 0 THEN 0
  ELSE IF (a < 0) = (b < 0) THEN Abs(a) \div Abs(b) ELSE -(Abs(a) \div Abs(b))

\* Fraction::operator+(const Fraction&)
Fraction_plus(a, b) ==
  IF a.denominator = b.denominator
    THEN Fraction(a.numerator + b.numerator, a.denominator)
    ELSE Fraction(a.numerator * b.denominator + b.numerator * a.denominator,
                  a.denominator * b.denominator)

\* Fraction::operator-(const Fraction&)
Fraction_minus(a, b) ==
  IF a.denominator = b.denominator
    THEN Fraction(a.numerator - b.numerator, a.denominator)
    ELSE Fraction(a.numerator * b.denominator - b.numerator * a.denominator,
                  a.denominator * b.denominator)

\* Fraction::operator-(int)
Fraction_minus_int(a, v) == Fraction(a.numerator - v * a.denominator, a.denominator)

\* Fraction::operator/(int)
Fraction_div(a, v) == Fraction(a.numerator, a.denominator * v)

\* Fraction::round
Fraction_round(a) == IntDiv(a.numerator + IntDiv(a.denominator, 2), a.denominator)

MaxNumerator == 6      \* numerators are in -MaxNumerator..MaxNumerator
MaxDenominator == 3    \* denominators are in 1..MaxDenominator
MaxDivisor == 3        \* divisors are in 1..MaxDivisor

FracInit ==
  /\ fr_pc = "call" /\ fr_a = Fraction(0, 1) /\ fr_k = 1 /\ fr_round = 0
  /\ FracOthersIdle

\* (a/k).round() for a Fraction a with a positive denominator.
Fraction_div_round ==
  /\ fr_pc = "call"
  /\ \E num \in -MaxNumerator..MaxNumerator, den \in 1..MaxDenominator,
        k \in 1..MaxDivisor :
       /\ fr_a' = Fraction(num, den)
       /\ fr_k' = k
       /\ fr_round' = Fraction_round(Fraction_div(Fraction(num, den), k))
  /\ fr_pc' = "done"
  /\ FracFrame

FracNext == Fraction_div_round

\* r is an integer nearest to num/den, den positive: no integer is nearer
\* (at a tie both neighbours are nearest).
IsNearest(r, num, den) == 2 * Abs(num - r * den) <= den

\* C12: for every Fraction a with a positive denominator and every k >= 1,
\* (a/k).round() is the integer nearest to a.numerator / (a.denominator * k),
\* also when the numerator is negative.
C12_RoundIsNearest ==
  fr_pc = "done" => IsNearest(fr_round, fr_a.numerator, fr_a.denominator * fr_k)

---------------------------------------------------------------------------
(* The clap step of HeifContext::decode_image (heif_context.cc) with the   *)
(* rounded edges of Box_clap (box.cc).                                     *)

Invalid_clean_aperture == Err("Invalid_input", "Invalid_clean_aperture")

\* Box_clap::left_rounded
left_rounded(c, image_width) ==
  LET pcX == Fraction_plus(c.m_horizontal_offset, Fraction(image_width - 1, 2))
      left == Fraction_minus(pcX,
                Fraction_div(Fraction_minus_int(c.m_clean_aperture_width, 1), 2))
  IN  Fraction_round(left)

\* Box_clap::right_rounded
right_rounded(c, image_width) ==
  LET pcX == Fraction_plus(c.m_horizontal_offset, Fraction(image_width - 1, 2))
      right == Fraction_plus(pcX,
                 Fraction_div(Fraction_minus_int(c.m_clean_aperture_width, 1), 2))
  IN  Fraction_round(right)

\* Box_clap::top_rounded
top_rounded(c, image_height) ==
  LET pcY == Fraction_plus(c.m_vertical_offset, Fraction(image_height - 1, 2))
      top == Fraction_minus(pcY,
               Fraction_div(Fraction_minus_int(c.m_clean_aperture_height, 1), 2))
  IN  Fraction_round(top)

\* Box_clap::bottom_rounded
bottom_rounded(c, image_height) ==
  LET pcY == Fraction_plus(c.m_vertical_offset, Fraction(image_height - 1, 2))
      bottom == Fraction_plus(pcY,
                  Fraction_div(Fraction_minus_int(c.m_clean_aperture_height, 1), 2))
  IN  Fraction_round(bottom)

MaxImageSize == 3      \* the image is 1..MaxImageSize wide and high
MaxClapSize == 3       \* numerators of the aperture size are in 0..MaxClapSize
MaxClapOffset == 1     \* numerators of the offsets are in -MaxClapOffset..MaxClapOffset

\* Box_clap::parse stores the eight numbers of the box as they are read; a
\* denominator of 0 is stored like any other.
ClapDenominators == {0, 1, 2}

ClapBoxes ==
  [m_clean_aperture_width : [numerator : 0..MaxClapSize, denominator : ClapDenominators],
   m_clean_aperture_height : [numerator : 0..MaxClapSize, denominator : ClapDenominators],
   m_horizontal_offset : [numerator : -MaxClapOffset..MaxClapOffset,
                          denominator : ClapDenominators],
   m_vertical_offset : [numerator : -MaxClapOffset..MaxClapOffset,
                        denominator : ClapDenominators]]

\* Some round() of the four edges divides by zero.
ClapDividesByZero(c) ==
  \/ c.m_clean_aperture_width.denominator = 0
  \/ c.m_clean_aperture_height.denominator = 0
  \/ c.m_horizontal_offset.denominator = 0
  \/ c.m_vertical_offset.denominator = 0

ClapInit ==
  /\ clap_pc = "call" /\ img_size = [width |-> 0, height |-> 0]
  /\ clap = NoClap /\ clap_window = NoWindow
  /\ crop_called = FALSE /\ clap_error = NoError
  /\ ClapOthersIdle

\* decode_image reaches a clap property of the image: the four edges.
decode_image_clap_edges ==
  /\ clap_pc = "call"
  /\ \E w \in 1..MaxImageSize, h \in 1..MaxImageSize, c \in ClapBoxes :
       /\ img_size' = [width |-> w, height |-> h]
       /\ clap' = c
       /\ clap_window' = [left |-> left_rounded(c, w), right |-> right_rounded(c, w),
                          top |-> top_rounded(c, h), bottom |-> bottom_rounded(c, h)]
  /\ clap_pc' = "clamp"
  /\ UNCHANGED <<crop_called, clap_error>>
  /\ ClapFrame

\* The same with a build whose division by zero traps.
decode_image_clap_trap ==
  /\ clap_pc = "call"
  /\ \E w \in 1..MaxImageSize, h \in 1..MaxImageSize, c \in ClapBoxes :
       /\ ClapDividesByZero(c)
       /\ img_size' = [width |-> w, height |-> h]
       /\ clap' = c
  /\ clap_pc' = "crashed"
  /\ UNCHANGED <<clap_window, crop_called, clap_error>>
  /\ ClapFrame

\* The window after the four clamping statements.
ClampedWindow(win, size) ==
  [left |-> IF win.left < 0 THEN 0 ELSE win.left,
   top |-> IF win.top < 0 THEN 0 ELSE win.top,
   right |-> IF win.right >= size.width THEN size.width - 1 ELSE win.right,
   bottom |-> IF win.bottom >= size.height THEN size.height - 1 ELSE win.bottom]

ClapRejected(win) == win.left >= win.right \/ win.top >= win.bottom

decode_image_clap_reject ==
  /\ clap_pc = "clamp"
  /\ ClapRejected(ClampedWindow(clap_window, img_size))
  /\ clap_window' = ClampedWindow(clap_window, img_size)
  /\ clap_error' = Invalid_clean_aperture
  /\ clap_pc' = "done"
  /\ UNCHANGED <<img_size, clap, crop_called>>
  /\ ClapFrame

\* img->crop(left, right, top, bottom, cropped_img); the error it may return
\* is not followed further.
decode_image_clap_crop ==
  /\ clap_pc = "clamp"
  /\ ~ClapRejected(ClampedWindow(clap_window, img_size))
  /\ clap_window' = ClampedWindow(clap_window, img_size)
  /\ crop_called' = TRUE
  /\ clap_error' = ErrorOk
  /\ clap_pc' = "done"
  /\ UNCHANGED <<img_size, clap>>
  /\ ClapFrame

ClapNext ==
  \/ decode_image_clap_edges
  \/ decode_image_clap_trap
  \/ decode_image_clap_reject
  \/ decode_image_clap_crop

\* The window holds at least one pixel.
WindowNotEmpty(win) == win.right >= win.left /\ win.bottom >= win.top

\* C11: whenever the crop is performed its window satisfies
\* 0 <= left <= right < W and 0 <= top <= bottom < H; a window that is empty
\* after clamping is rejected with Invalid_clean_aperture, and a window that
\* is not empty (one pixel wide or high included) is cropped, not rejected.
C11_ClapWindow ==
  /\ crop_called =>
       /\ 0 <= clap_window.left /\ clap_window.left <= clap_window.right
       /\ clap_window.right < img_size.width
       /\ 0 <= clap_window.top /\ clap_window.top <= clap_window.bottom
       /\ clap_window.bottom < img_size.height
  /\ clap_pc = "done" /\ ~WindowNotEmpty(clap_window) =>
       ~crop_called /\ clap_error = Invalid_clean_aperture
  /\ clap_pc = "done" /\ WindowNotEmpty(clap_window) =>
       crop_called /\ clap_error # Invalid_clean_aperture

---------------------------------------------------------------------------
(* Box_hvcC::parse and Box_hvcC::get_headers (box.cc).  The 22 bytes of    *)
(* fixed fields before the array count are present and not modelled.       *)

\* BitstreamRange: the bytes left in the box and the sticky error flag.
Range(bytes) == [rest |-> bytes, error |-> FALSE]

RangeFailed == [rest |-> <<>>, error |-> TRUE]

Tail_n(s, n) == SubSeq(s, n + 1, Len(s))

\* BitstreamRange::read8 and read16: the value read and the range after it;
\* a read past the end gives 0 and sets the error.
read8(r) ==
  IF r.error \/ Len(r.rest) < 1 THEN [value |-> 0, range |-> RangeFailed]
  ELSE [value |-> r.rest[1], range |-> [r EXCEPT !.rest = Tail_n(r.rest, 1)]]

read16(r) ==
  IF r.error \/ Len(r.rest) < 2 THEN [value |-> 0, range |-> RangeFailed]
  ELSE [value |-> r.rest[1] * 256 + r.rest[2],
        range |-> [r EXCEPT !.rest = Tail_n(r.rest, 2)]]

\* BitstreamRange::read(n): whether n bytes are left.
range_read(r, n) == ~r.error /\ n <= Len(r.rest)

\* The loop over the units of one array: the range and the units after it.
RECURSIVE parse_nal_units(_, _, _, _)
parse_nal_units(r, u, nUnits, units) ==
  IF ~(u < nUnits /\ ~r.error) THEN [range |-> r, m_nal_units |-> units]
  ELSE LET size == read16(r) IN
       IF size.value = 0
         THEN parse_nal_units(size.range, u + 1, nUnits, units)
       ELSE IF range_read(size.range, size.value)
         THEN parse_nal_units(
                [size.range EXCEPT !.rest = Tail_n(size.range.rest, size.value)],
                u + 1, nUnits,
                Append(units, SubSeq(size.range.rest, 1, size.value)))
         ELSE parse_nal_units(RangeFailed, u + 1, nUnits, Append(units, <<>>))

\* The loop over the arrays.
RECURSIVE parse_nal_arrays(_, _, _, _)
parse_nal_arrays(r, i, nArrays, arrays) ==
  IF ~(i < nArrays /\ ~r.error) THEN [range |-> r, m_nal_array |-> arrays]
  ELSE LET byte == read8(r)
           nUnits == read16(byte.range)
           loop == parse_nal_units(nUnits.range, 0, nUnits.value, <<>>)
       IN  parse_nal_arrays(loop.range, i + 1, nArrays,
             Append(arrays, [m_NAL_unit_type |-> byte.value % 64,
                             m_nal_units |-> loop.m_nal_units]))

\* Box_hvcC::parse from the array count on.
Box_hvcC_parse_arrays(bytes) ==
  LET nArrays == read8(Range(bytes))
  IN  parse_nal_arrays(nArrays.range, 0, nArrays.value, <<>>)

\* The four bytes of unit.size(), written in the order of a little-endian
\* length.
UnitRecord_reversed(unit) ==
  << Len(unit) % 256, (Len(unit) \div 256) % 256,
     (Len(unit) \div 65536) % 256, (Len(unit) \div 16777216) % 256 >> \o unit

\* The four push_back of unit.size() and the insert of the unit.
UnitRecord(unit) ==
  << (Len(unit) \div 16777216) % 256, (Len(unit) \div 65536) % 256,
     (Len(unit) \div 256) % 256, Len(unit) % 256 >> \o unit

RECURSIVE UnitRecords(_)
UnitRecords(units) ==
  IF units = <<>> THEN <<>>
  ELSE UnitRecord(Head(units)) \o UnitRecords(Tail(units))

\* Box_hvcC::get_headers on an empty dest.
RECURSIVE Box_hvcC_get_headers(_)
Box_hvcC_get_headers(arrays) ==
  IF arrays = <<>> THEN <<>>
  ELSE UnitRecords(Head(arrays).m_nal_units) \o Box_hvcC_get_headers(Tail(arrays))

MaxContentLen == 9     \* the content has at most MaxContentLen bytes

ByteValues == {0, 1, 2}

HvccInit ==
  /\ hv_pc = "call" /\ hv_content = <<>> /\ m_nal_array = <<>>
  /\ hv_error = FALSE /\ dest = <<>>
  /\ HvccOthersIdle

Box_hvcC_parse ==
  /\ hv_pc = "call"
  /\ \E bytes \in SeqsUpTo(ByteValues, MaxContentLen) :
       /\ hv_content' = bytes
       /\ m_nal_array' = Box_hvcC_parse_arrays(bytes).m_nal_array
       /\ hv_error' = Box_hvcC_parse_arrays(bytes).range.error
  /\ hv_pc' = "parsed"
  /\ UNCHANGED dest
  /\ HvccFrame

hvcC_get_headers ==
  /\ hv_pc = "parsed"
  /\ dest' = Box_hvcC_get_headers(m_nal_array)
  /\ hv_pc' = "done"
  /\ UNCHANGED <<hv_content, m_nal_array, hv_error>>
  /\ HvccFrame

HvccNext == Box_hvcC_parse \/ hvcC_get_headers

\* The units stored by parse, in array order then unit order.
RECURSIVE StoredUnits(_)
StoredUnits(arrays) ==
  IF arrays = <<>> THEN <<>>
  ELSE Head(arrays).m_nal_units \o StoredUnits(Tail(arrays))

\* A reader of records made of a 4-byte big-endian length and that many
\* bytes: the units read, and whether the bytes were such records to the end.
RECURSIVE ReadRecords(_, _)
ReadRecords(bytes, units) ==
  IF bytes = <<>> THEN [ok |-> TRUE, units |-> units]
  ELSE IF Len(bytes) < 4 THEN [ok |-> FALSE, units |-> units]
  ELSE LET n == bytes[1] * 16777216 + bytes[2] * 65536 + bytes[3] * 256 + bytes[4]
       IN  IF Len(bytes) < 4 + n THEN [ok |-> FALSE, units |-> units]
           ELSE ReadRecords(Tail_n(bytes, 4 + n),
                            Append(units, SubSeq(bytes, 5, 4 + n)))

\* C13: the bytes written by get_headers, re-read as records of a 4-byte
\* big-endian length and that many bytes, give exactly the NAL units stored
\* by parse, in array order then unit order.
C13_HeadersRoundTrip ==
  hv_pc = "done" =>
    ReadRecords(dest, <<>>) = [ok |-> TRUE, units |-> StoredUnits(m_nal_array)]

\* A box with a unit that was read whole and a unit cut off by the end of the
\* box, stored as an empty unit.
C13_Witness ==
  /\ hv_pc = "done" /\ hv_error
  /\ \E i \in 1..Len(StoredUnits(m_nal_array)) : StoredUnits(m_nal_array)[i] = <<>>
  /\ \E i \in 1..Len(StoredUnits(m_nal_array)) : StoredUnits(m_nal_array)[i] # <<>>

---------------------------------------------------------------------------
(* HeifContext::decode_overlay_image and the rest of decode_image after it *)
(* (heif_context.cc).  The calls into the pixel image and the decoder are  *)
(* followed by their results only.                                         *)

No_iref_box == Err("Invalid_input", "No_iref_box")
Invalid_overlay_data == Err("Invalid_input", "Invalid_overlay_data")
Overlay_image_outside_of_canvas == Err("Invalid_input", "Overlay_image_outside_of_canvas")
Unsupported_color_conversion == Err("Unsupported_feature", "Unsupported_color_conversion")

\* ImageOverlay::parse
Invalid_grid_data == Err("Invalid_input", "Invalid_grid_data")
Unsupported_data_version == Err("Unsupported_feature", "Unsupported_data_version")
OverlayParseErrors == {Invalid_grid_data, Unsupported_data_version}

\* Errors of the pixel image and of the decoding of a referenced image.
FillError == Err("Usage_error", "Nonexisting_image_channel_referenced")
TileDecodeError == Err("Decoder_plugin_error", "Unspecified")
BlitError == Err("Invalid_input", "Unspecified")
AlphaDecodeError == Err("Decoder_plugin_error", "End_of_data")
TransformError == Err("Unsupported_feature", "Unspecified")

\* Box_ipco::get_properties_for_item_ID
No_properties_assigned_to_item == Err("Invalid_input", "No_properties_assigned_to_item")
Ipma_box_references_nonexisting_property ==
  Err("Invalid_input", "Ipma_box_references_nonexisting_property")
PropertyFetchErrors ==
  {No_properties_assigned_to_item, Ipma_box_references_nonexisting_property}

MaxOverlayRefs == 3    \* an iovl item refers to at most MaxOverlayRefs images

OverlayInit ==
  /\ ov_pc = "call" /\ ov_refs = 0 /\ ov_i = 0 /\ ov_err = NoError
  /\ ov_failed = {} /\ ov_skipped = {} /\ ov_result = NoError
  /\ di_result = NoError
  /\ OverlayOthersIdle

OverlayReturn(err) ==
  /\ ov_result' = err
  /\ ov_pc' = "returned"

\* decode_overlay_image up to the loop: the references, the overlay data,
\* the canvas and its background.  The error of overlay.parse is not looked
\* at; after a failed parse there are no offsets.
decode_overlay_image_call ==
  /\ ov_pc = "call"
  /\ \E iref \in BOOLEAN, n \in 0..MaxOverlayRefs,
        parsed \in {ErrorOk} \cup OverlayParseErrors,
        filled \in {ErrorOk, FillError} :
       LET num_offsets == IF parsed = ErrorOk THEN n ELSE 0
           parse_failed == IF parsed = ErrorOk THEN {} ELSE {parsed}
       IN  /\ ov_refs' = IF iref THEN n ELSE 0
           /\ IF ~iref
                THEN /\ OverlayReturn(No_iref_box)
                     /\ ov_failed' = {No_iref_box}
                     /\ UNCHANGED ov_err
              ELSE IF n # num_offsets
                THEN /\ OverlayReturn(Invalid_overlay_data)
                     /\ ov_failed' = parse_failed \cup {Invalid_overlay_data}
                     /\ UNCHANGED ov_err
              ELSE IF filled # ErrorOk
                THEN /\ OverlayReturn(filled)
                     /\ ov_failed' = parse_failed \cup {filled}
                     /\ ov_err' = filled
              ELSE /\ ov_pc' = "loop"
                   /\ ov_failed' = parse_failed
                   /\ ov_err' = filled
                   /\ UNCHANGED ov_result
  /\ UNCHANGED <<ov_i, ov_skipped, di_result>>
  /\ OverlayFrame

\* After a failed parse the canvas size was never assigned: creating the
\* canvas from it may also end the process.
decode_overlay_image_canvas_crash ==
  /\ ov_pc = "call"
  /\ \E parsed \in OverlayParseErrors : ov_failed' = {parsed}
  /\ ov_pc' = "crashed"
  /\ UNCHANGED <<ov_refs, ov_i, ov_err, ov_skipped, ov_result, di_result>>
  /\ OverlayFrame

\* One turn of the loop over the referenced images.
decode_overlay_image_tile ==
  /\ ov_pc = "loop" /\ ov_i < ov_refs
  /\ \E decoded \in {ErrorOk, TileDecodeError}, converted \in BOOLEAN,
        blit \in {ErrorOk, Overlay_image_outside_of_canvas, BlitError} :
       IF decoded # ErrorOk
         THEN /\ OverlayReturn(decoded)
              /\ ov_err' = decoded
              /\ ov_failed' = ov_failed \cup {decoded}
              /\ UNCHANGED <<ov_i, ov_skipped>>
       ELSE IF ~converted
         THEN /\ OverlayReturn(Unsupported_color_conversion)
              /\ ov_err' = decoded
              /\ ov_failed' = ov_failed \cup {Unsupported_color_conversion}
              /\ UNCHANGED <<ov_i, ov_skipped>>
       ELSE IF blit = ErrorOk
         THEN /\ ov_err' = blit
              /\ ov_i' = ov_i + 1
              /\ UNCHANGED <<ov_pc, ov_failed, ov_skipped, ov_result>>
       ELSE IF blit = Overlay_image_outside_of_canvas
         THEN /\ ov_err' = ErrorOk
              /\ ov_failed' = ov_failed \cup {blit}
              /\ ov_skipped' = ov_skipped \cup {ov_i}
              /\ ov_i' = ov_i + 1
              /\ UNCHANGED <<ov_pc, ov_result>>
       ELSE /\ OverlayReturn(blit)
            /\ ov_err' = blit
            /\ ov_failed' = ov_failed \cup {blit}
            /\ UNCHANGED <<ov_i, ov_skipped>>
  /\ UNCHANGED <<ov_refs, di_result>>
  /\ OverlayFrame

\* return err after the loop
decode_overlay_image_return ==
  /\ ov_pc = "loop" /\ ~(ov_i < ov_refs)
  /\ OverlayReturn(ov_err)
  /\ UNCHANGED <<ov_refs, ov_i, ov_err, ov_failed, ov_skipped, di_result>>
  /\ OverlayFrame

\* decode_image after decode_overlay_image: the alpha channel and the
\* transformations.  The error of get_properties_for_item_ID is overwritten
\* or left behind by `return Error::Ok`.
decode_image_after_overlay ==
  /\ ov_pc = "returned"
  /\ \E alpha \in {ErrorOk, AlphaDecodeError},
        fetched \in {ErrorOk} \cup PropertyFetchErrors,
        transformed \in {ErrorOk, TransformError} :
       IF ov_result # ErrorOk
         THEN /\ di_result' = ov_result
              /\ UNCHANGED ov_failed
       ELSE IF alpha # ErrorOk
         THEN /\ di_result' = alpha
              /\ ov_failed' = ov_failed \cup {alpha}
       ELSE IF fetched = ErrorOk /\ transformed # ErrorOk
         THEN /\ di_result' = transformed
              /\ ov_failed' = ov_failed \cup {transformed}
       ELSE /\ di_result' = ErrorOk
            /\ ov_failed' = ov_failed \cup ({fetched} \ {ErrorOk})
  /\ ov_pc' = "done"
  /\ UNCHANGED <<ov_refs, ov_i, ov_err, ov_skipped, ov_result>>
  /\ OverlayFrame

OverlayNext ==
  \/ decode_overlay_image_call
  \/ decode_overlay_image_canvas_crash
  \/ decode_overlay_image_tile
  \/ decode_overlay_image_return
  \/ decode_image_after_overlay

\* C14: a blit that fails with Overlay_image_outside_of_canvas is skipped
\* and decode_overlay_image goes on and returns Ok if nothing else fails;
\* every other error of a tile decode, a colour conversion, a blit or the
\* fill is returned by decode_overlay_image; and no other error of a decode
\* is swallowed: a decode that returns Ok has met no error but off-canvas
\* blits.
C14_OnlyOffCanvasSwallowed ==
  /\ ov_pc = "returned" =>
       /\ \A e \in ov_failed \ ({Overlay_image_outside_of_canvas} \cup OverlayParseErrors) :
            ov_result = e
       /\ ov_failed \subseteq {Overlay_image_outside_of_canvas} => ov_result = ErrorOk
       /\ ov_result = ErrorOk => ov_failed \subseteq {Overlay_image_outside_of_canvas}
  /\ ov_pc = "done" /\ di_result = ErrorOk =>
       ov_failed \subseteq {Overlay_image_outside_of_canvas}

---------------------------------------------------------------------------
(* HeifContext::register_decoder and HeifContext::get_decoder              *)
(* (heif_context.cc).  A plugin is known by its address, m_decoder_plugins *)
(* is a std::set of addresses and is walked in their order.                *)

MaxPlugins == 3        \* plugins have the addresses 1..MaxPlugins
MaxPriority == 2       \* does_support_format returns 0..MaxPriority

NoPlugin == 0          \* nullptr

Unsupported_codec == Err("Unsupported_feature", "Unsupported_codec")

\* The loop of get_decoder over the plugins from address p on.
RECURSIVE get_decoder_loop(_, _, _, _, _)
get_decoder_loop(p, plugins, priority_of, highest_priority, best) ==
  IF p > MaxPlugins THEN best
  ELSE IF p \in plugins /\ priority_of[p] > highest_priority
    THEN get_decoder_loop(p + 1, plugins, priority_of, priority_of[p], p)
    ELSE get_decoder_loop(p + 1, plugins, priority_of, highest_priority, best)

\* HeifContext::get_decoder
get_decoder(plugins, priority_of) ==
  get_decoder_loop(1, plugins, priority_of, 0, NoPlugin)

PluginInit ==
  /\ dp_pc = "open" /\ m_decoder_plugins = {}
  /\ plugin_priority = [p \in 1..MaxPlugins |-> 0]
  /\ best_plugin = NoPlugin /\ dp_error = NoError
  /\ PluginOthersIdle

\* HeifContext::register_decoder of a plugin not yet registered.
register_decoder ==
  /\ dp_pc = "open"
  /\ \E p \in (1..MaxPlugins) \ m_decoder_plugins, priority \in 0..MaxPriority :
       /\ m_decoder_plugins' = m_decoder_plugins \cup {p}
       /\ plugin_priority' = [plugin_priority EXCEPT ![p] = priority]
  /\ UNCHANGED <<dp_pc, best_plugin, dp_error>>
  /\ PluginFrame

\* decode_image of an hvc1 item up to the test of the plugin.
decode_image_get_decoder ==
  /\ dp_pc = "open"
  /\ best_plugin' = get_decoder(m_decoder_plugins, plugin_priority)
  /\ dp_error' = IF get_decoder(m_decoder_plugins, plugin_priority) = NoPlugin
                   THEN Unsupported_codec ELSE NoError
  /\ dp_pc' = "done"
  /\ UNCHANGED <<m_decoder_plugins, plugin_priority>>
  /\ PluginFrame

PluginNext == register_decoder \/ decode_image_get_decoder

\* C15: with a non-empty registry get_decoder returns a registered plugin of
\* the highest priority, also when that priority is 0; it returns no plugin,
\* and the decode fails with Unsupported_codec, only when the registry is
\* empty.
C15_HighestPriorityWins ==
  dp_pc = "done" =>
    /\ m_decoder_plugins # {} =>
         /\ best_plugin \in m_decoder_plugins
         /\ \A p \in m_decoder_plugins :
              plugin_priority[p] <= plugin_priority[best_plugin]
    /\ best_plugin = NoPlugin \/ dp_error = Unsupported_codec =>
         m_decoder_plugins = {}

---------------------------------------------------------------------------
(* Box::read (box.cc) on a parent range that ends with the file.  A header *)
(* and a box size that fit in what is left of the parent range, and the    *)
(* sizes the sanity check refuses, are followed; the cursor of a range is  *)
(* its offset in the file.                                                 *)

size_until_end_of_file == 0

MaxBoxStart == 1       \* the box starts at offset 0..MaxBoxStart
MaxRangeLen == 30      \* the parent range has at most MaxRangeLen bytes left

\* The headers BoxHeader::parse can read from `left` bytes: a compact size
\* or the escape 1 with a 64-bit size, and a uuid type with its 16 bytes.
BoxHeaders(left) ==
  { h \in [m_size : 0..left, m_type : {"free", "uuid"}, m_header_size : {8, 16, 24, 32}] :
      /\ h.m_header_size <= left
      /\ h.m_type = "free" => h.m_header_size \in {8, 16}
      /\ h.m_type = "uuid" => h.m_header_size \in {24, 32}
      \* a compact size is never 1
      /\ h.m_header_size \in {8, 24} => h.m_size # 1 }

get_box_size(h) == h.m_size

get_header_size(h) == h.m_header_size

BoxReadInit ==
  /\ br_pc = "call" /\ br_range = [start |-> 0, pos |-> 0, end |-> 0]
  /\ hdr = NoHeader /\ boxrange = NoRange
  /\ br_result = FALSE /\ br_error = NoError
  /\ BoxReadOthersIdle

\* hdr.parse(range) with a header that is whole.
Box_read_header ==
  /\ br_pc = "call"
  /\ \E start \in 0..MaxBoxStart, left \in 8..MaxRangeLen :
       \E h \in BoxHeaders(left) :
         /\ br_range' = [start |-> start, pos |-> start + h.m_header_size,
                         end |-> start + left]
         /\ hdr' = h
  /\ br_pc' = "header"
  /\ UNCHANGED <<boxrange, br_result, br_error>>
  /\ BoxReadFrame

\* hdr.parse(range) with a header cut off by the end of the range.
Box_read_header_error ==
  /\ br_pc = "call"
  /\ \E start \in 0..MaxBoxStart, left \in 0..7 :
       br_range' = [start |-> start, pos |-> start + left, end |-> start + left]
  /\ br_error' = End_of_data
  /\ br_pc' = "done"
  /\ UNCHANGED <<hdr, boxrange, br_result>>
  /\ BoxReadFrame

\* The sanity check of the box size.
Box_read_invalid_size ==
  /\ br_pc = "header"
  /\ get_box_size(hdr) < get_header_size(hdr)
  /\ br_error' = Invalid_box_size
  /\ br_pc' = "done"
  /\ UNCHANGED <<br_range, hdr, boxrange, br_result>>
  /\ BoxReadFrame

\* boxrange, box->parse(boxrange) and boxrange.skip_to_end_of_box(): the
\* parser reads some of the content and returns Ok or an error; the skip
\* moves the cursor to the end of the content range.
Box_read_parse ==
  /\ br_pc = "header"
  /\ ~(get_box_size(hdr) < get_header_size(hdr))
  /\ \E consumed \in 0..(get_box_size(hdr) - get_header_size(hdr)),
        err \in {ErrorOk, End_of_data} :
       /\ boxrange' = [made |-> TRUE,
                       pos |-> br_range.pos + consumed,
                       end |-> br_range.pos + (get_box_size(hdr) - get_header_size(hdr))]
       /\ br_result' = (err = ErrorOk)
       /\ br_error' = err
  /\ br_range' = [br_range EXCEPT
                    !.pos = br_range.pos + (get_box_size(hdr) - get_header_size(hdr))]
  /\ br_pc' = "done"
  /\ UNCHANGED hdr
  /\ BoxReadFrame

BoxReadNext ==
  \/ Box_read_header
  \/ Box_read_header_error
  \/ Box_read_invalid_size
  \/ Box_read_parse

\* Box::read has read a whole header and has returned.
HeaderReadAndReturned == br_pc = "done" /\ hdr # NoHeader

\* C16: a box whose size field is 0 is taken as extending to the end of the
\* file: it is accepted (no Invalid_box_size), its content range runs to the
\* end of the input, and after it is read the parent range is at its end.
C16_SizeZeroToEndOfFile ==
  HeaderReadAndReturned /\ get_box_size(hdr) = size_until_end_of_file =>
    /\ br_error # Invalid_box_size
    /\ boxrange.made /\ boxrange.end = br_range.end
    /\ br_range.pos = br_range.end

\* The end of the box: start + box_size, the end of the file for size 0.
EndOfBox ==
  IF get_box_size(hdr) = size_until_end_of_file THEN br_range.end
  ELSE br_range.start + get_box_size(hdr)

\* C17: whenever Box::read has read a box header, on return the cursor of
\* the parent range stands at the end of that box, whatever the outcome:
\* content read wholly, partly or not at all, an error of the box parser,
\* or Invalid_box_size.
C17_CursorAtEndOfBox ==
  HeaderReadAndReturned => br_range.pos = EndOfBox

---------------------------------------------------------------------------
(* Box_ipco::get_properties_for_item_ID (box.cc) and the fetches of        *)
(* properties in the open (heif_context.cc).  An association is its        *)
(* property_index; the children of ipco are known by their box type.       *)

MaxIpcoChildren == 2   \* ipco has at most MaxIpcoChildren children
MaxPropertyIndex == 3  \* property_index is in 0..MaxPropertyIndex
MaxAssociations == 2   \* an entry has at most MaxAssociations associations
MaxIpmaEntries == 2    \* ipma has at most MaxIpmaEntries entries
MaxIpmaItemID == 2     \* items have the IDs 1..MaxIpmaItemID

IpcoChildTypes == <<"hvcC", "ispe", "irot", "clap", "auxC", "imir">>

IpcoChildren == {SubSeq(IpcoChildTypes, 1, n) : n \in 0..MaxIpcoChildren}

IpmaEntries ==
  [item_ID : 1..MaxIpmaItemID,
   associations : SeqsUpTo(0..MaxPropertyIndex, MaxAssociations)]

\* Box_ipma::get_properties_for_item_ID: the position of the first entry of
\* the item, 0 for nullptr.
RECURSIVE ipma_find_entry(_, _, _)
ipma_find_entry(entries, itemID, k) ==
  IF k > Len(entries) THEN 0
  ELSE IF entries[k].item_ID = itemID THEN k
  ELSE ipma_find_entry(entries, itemID, k + 1)

\* The loop over the associations of an entry.
RECURSIVE ipco_collect(_, _, _, _)
ipco_collect(assoc, k, children, out) ==
  IF k > Len(assoc) THEN [err |-> ErrorOk, properties |-> out]
  ELSE IF assoc[k] > Len(children)
    THEN [err |-> Ipma_box_references_nonexisting_property, properties |-> out]
  ELSE IF assoc[k] > 0
    THEN ipco_collect(assoc, k + 1, children, Append(out, children[assoc[k]]))
  ELSE ipco_collect(assoc, k + 1, children, out)

\* Box_ipco::get_properties_for_item_ID
get_properties_for_item_ID(itemID, entries, children) ==
  IF ipma_find_entry(entries, itemID, 1) = 0
    THEN [err |-> No_properties_assigned_to_item, properties |-> <<>>]
    ELSE ipco_collect(entries[ipma_find_entry(entries, itemID, 1)].associations,
                      1, children, <<>>)

\* The loop of interpret_heif_file over m_all_images from the ID `id` on: the
\* first error of a fetch of properties.
RECURSIVE interpret_properties(_, _, _, _)
interpret_properties(id, images, entries, children) ==
  IF id > MaxIpmaItemID THEN ErrorOk
  ELSE IF id \in images /\ get_properties_for_item_ID(id, entries, children).err # ErrorOk
    THEN get_properties_for_item_ID(id, entries, children).err
  ELSE interpret_properties(id + 1, images, entries, children)

IpmaInit ==
  /\ ip_pc = "call" /\ allProperties = <<>> /\ m_entries = <<>>
  /\ ip_images = {} /\ ip_open_error = NoError
  /\ ip_item = 0 /\ out_properties = <<>> /\ ip_error = NoError
  /\ IpmaOthersIdle

\* The open of a file: what it does with ipco and ipma.  The rest of the
\* open succeeds.
open_read_properties ==
  /\ ip_pc = "call"
  /\ \E children \in IpcoChildren, images \in SUBSET (1..MaxIpmaItemID),
        entries \in SeqsUpTo(IpmaEntries, MaxIpmaEntries) :
       /\ allProperties' = children
       /\ m_entries' = entries
       /\ ip_images' = images
       /\ ip_open_error' = interpret_properties(1, images, entries, children)
       /\ ip_pc' = IF interpret_properties(1, images, entries, children) = ErrorOk
                     THEN "opened" ELSE "failed"
  /\ UNCHANGED <<ip_item, out_properties, ip_error>>
  /\ IpmaFrame

\* A fetch of the properties of an item after the open.
ipco_get_properties_for_item_ID ==
  /\ ip_pc = "opened"
  /\ \E id \in 1..MaxIpmaItemID :
       /\ ip_item' = id
       /\ out_properties' = get_properties_for_item_ID(id, m_entries, allProperties).properties
       /\ ip_error' = get_properties_for_item_ID(id, m_entries, allProperties).err
  /\ ip_pc' = "done"
  /\ UNCHANGED <<allProperties, m_entries, ip_images, ip_open_error>>
  /\ IpmaFrame

IpmaNext == open_read_properties \/ ipco_get_properties_for_item_ID

\* The children of ipco an entry names, in association order.
RECURSIVE NamedChildren(_, _)
NamedChildren(assoc, children) ==
  IF assoc = <<>> THEN <<>>
  ELSE IF Head(assoc) = 0 THEN NamedChildren(Tail(assoc), children)
  ELSE <<children[Head(assoc)]>> \o NamedChildren(Tail(assoc), children)

\* C18: after a successful open every association of every item listed in
\* ipma, image or not, has a property_index that is 0 or at most the number
\* of children of ipco; get_properties_for_item_ID returns
\* Ipma_box_references_nonexisting_property for an index above that number,
\* and otherwise no error and the children named by the non-zero indices, in
\* association order, index i giving the i-th child.
C18_PropertyIndexInRange ==
  /\ ip_pc \in {"opened", "done"} =>
       \A e \in 1..Len(m_entries) : \A k \in 1..Len(m_entries[e].associations) :
         m_entries[e].associations[k] <= Len(allProperties)
  /\ ip_pc = "done" /\ ipma_find_entry(m_entries, ip_item, 1) # 0 =>
       LET assoc == m_entries[ipma_find_entry(m_entries, ip_item, 1)].associations
       IN  IF \E k \in 1..Len(assoc) : assoc[k] > Len(allProperties)
             THEN ip_error = Ipma_box_references_nonexisting_property
             ELSE ip_error = ErrorOk /\ out_properties = NamedChildren(assoc, allProperties)

---------------------------------------------------------------------------
(* The loop of HeifContext::interpret_heif_file that reads the resolution  *)
(* of an image from its properties (heif_context.cc), with                 *)
(* Box_clap::get_width_rounded / get_height_rounded (box.cc).  The two     *)
(* uint32 of an ispe box are held as 16-bit halves.                        *)

MaxResProperties == 3  \* an image has at most MaxResProperties properties

U32(hi, lo) == [hi |-> hi, lo |-> lo]

\* width >= static_cast<uint32_t>(std::numeric_limits<int>::max())
AtLeastIntMax(u) == u.hi > 32767 \/ (u.hi = 32767 /\ u.lo = 65535)

U32Value(u) == u.hi * 65536 + u.lo

\* 3, 4, INT_MAX - 1, INT_MAX, 2^31 and 2^32 - 1
IspeSizes ==
  {U32(0, 3), U32(0, 4), U32(32767, 65534), U32(32767, 65535), U32(32768, 0),
   U32(65535, 65535)}

NoProperty ==
  [type |-> "", image_width |-> U32(0, 0), image_height |-> U32(0, 0),
   m_clean_aperture_width |-> Fraction(0, 1),
   m_clean_aperture_height |-> Fraction(0, 1), m_rotation |-> 0]

\* The properties the loop looks at.
ResProperties ==
  {[NoProperty EXCEPT !.type = "ispe", !.image_width = w, !.image_height = h] :
     w \in IspeSizes, h \in {U32(0, 3), U32(0, 4), U32(32767, 65535)}}
  \cup {[NoProperty EXCEPT !.type = "clap",
                           !.m_clean_aperture_width = Fraction(w, wd),
                           !.m_clean_aperture_height = Fraction(h, 1)] :
          w \in 1..MaxClapSize, wd \in {1, 2}, h \in 1..MaxClapSize}
  \cup {[NoProperty EXCEPT !.type = "irot", !.m_rotation = r * 90] : r \in 0..3}

\* Box_clap::get_width_rounded, get_height_rounded of an aperture size.
get_width_rounded(aperture) ==
  LET half == Fraction_div(Fraction_minus_int(aperture, 1), 2)
      left == Fraction_round(Fraction_minus(Fraction(0, 1), half))
      right == Fraction_round(half)
  IN  right + 1 - left

ResInit ==
  /\ rs_pc = "loop" /\ rs_properties = <<>> /\ ispe_read = FALSE
  /\ rs_size = [width |-> 0, height |-> 0] /\ rs_error = NoError
  /\ ResOthersIdle

\* get_properties of the image fails.
resolution_properties_error ==
  /\ rs_pc = "loop" /\ rs_properties = <<>>
  /\ \E err \in PropertyFetchErrors : rs_error' = err
  /\ rs_pc' = "done"
  /\ UNCHANGED <<rs_properties, ispe_read, rs_size>>
  /\ ResFrame

\* One turn of the loop over the properties.
resolution_property ==
  /\ rs_pc = "loop" /\ Len(rs_properties) < MaxResProperties
  /\ \E prop \in ResProperties :
       /\ rs_properties' = Append(rs_properties, prop)
       /\ IF prop.type = "ispe"
            THEN IF AtLeastIntMax(prop.image_width) \/ AtLeastIntMax(prop.image_height)
                   THEN /\ rs_error' = Security_limit_exceeded
                        /\ rs_pc' = "done"
                        /\ UNCHANGED <<ispe_read, rs_size>>
                   ELSE /\ rs_size' = [width |-> U32Value(prop.image_width),
                                       height |-> U32Value(prop.image_height)]
                        /\ ispe_read' = TRUE
                        /\ UNCHANGED <<rs_pc, rs_error>>
          ELSE IF ispe_read /\ prop.type = "clap"
            THEN /\ rs_size' = [width |-> get_width_rounded(prop.m_clean_aperture_width),
                                height |-> get_width_rounded(prop.m_clean_aperture_height)]
                 /\ UNCHANGED <<rs_pc, ispe_read, rs_error>>
          ELSE IF ispe_read /\ prop.type = "irot" /\ prop.m_rotation \in {90, 270}
            THEN /\ rs_size' = [width |-> rs_size.height, height |-> rs_size.width]
                 /\ UNCHANGED <<rs_pc, ispe_read, rs_error>>
          ELSE UNCHANGED <<rs_pc, ispe_read, rs_size, rs_error>>
  /\ ResFrame

\* The image has no further property.
resolution_end ==
  /\ rs_pc = "loop"
  /\ rs_error' = ErrorOk
  /\ rs_pc' = "done"
  /\ UNCHANGED <<rs_properties, ispe_read, rs_size>>
  /\ ResFrame

ResNext == resolution_properties_error \/ resolution_property \/ resolution_end

\* The fold of the properties from the k-th on: an ispe sets the size, a
\* clap after an ispe sets it to its aperture (taken for whole apertures
\* w/1 x h/1), an irot of 90 or 270 after an ispe swaps it.
RECURSIVE ResolutionFold(_, _, _, _)
ResolutionFold(props, k, seen, size) ==
  IF k > Len(props) THEN size
  ELSE IF props[k].type = "ispe"
    THEN ResolutionFold(props, k + 1, TRUE,
           [width |-> U32Value(props[k].image_width),
            height |-> U32Value(props[k].image_height)])
  ELSE IF seen /\ props[k].type = "clap"
    THEN ResolutionFold(props, k + 1, seen,
           [width |-> props[k].m_clean_aperture_width.numerator,
            height |-> props[k].m_clean_aperture_height.numerator])
  ELSE IF seen /\ props[k].type = "irot" /\ props[k].m_rotation \in {90, 270}
    THEN ResolutionFold(props, k + 1, seen, [width |-> size.height, height |-> size.width])
  ELSE ResolutionFold(props, k + 1, seen, size)

WholeApertures(props) ==
  \A k \in 1..Len(props) :
    props[k].type = "clap" => props[k].m_clean_aperture_width.denominator = 1

OversizedIspe(props) ==
  \E k \in 1..Len(props) :
    /\ props[k].type = "ispe"
    /\ AtLeastIntMax(props[k].image_width) \/ AtLeastIntMax(props[k].image_height)

\* C21: the resolution of an image after the loop is the fold of its
\* properties in ipma order: an ispe of INT_MAX or more is rejected with
\* Security_limit_exceeded; otherwise ispe sets the size, clap and irot
\* before the first ispe have no effect, a clap w/1 x h/1 after ispe gives
\* exactly (w, h), an irot of 90 or 270 swaps, an irot of 0 or 180 does not.
C21_ResolutionIsFold ==
  rs_pc = "done" /\ rs_error \notin PropertyFetchErrors =>
    IF OversizedIspe(rs_properties)
      THEN rs_error = Security_limit_exceeded
      ELSE /\ rs_error = ErrorOk
           /\ WholeApertures(rs_properties) =>
                rs_size = ResolutionFold(rs_properties, 1, FALSE,
                                         [width |-> 0, height |-> 0])

\* C24: decoding an iovl item whose overlay data has a version other than 0
\* returns Unsupported_feature / Unsupported_data_version, whatever the
\* number of referenced images; overlay data too short returns the parse
\* error; in neither case is a canvas made (and filled) from a width and
\* height that were not parsed.
C24_OverlayParseErrorReturned ==
  \A e \in OverlayParseErrors :
    e \in ov_failed =>
      /\ ov_pc \notin {"loop", "crashed"}
      /\ FillError \notin ov_failed
      /\ ov_pc \in {"returned", "done"} => ov_result = e

---------------------------------------------------------------------------
(* ImageGrid::parse and HeifContext::decode_full_grid_image                *)
(* (heif_context.cc).  Of the grid data its length and its fields are      *)
(* held; of a tile its size.                                               *)

MaxGridRows == 2       \* rows and columns are in 1..MaxGridRows
MaxGridSize == 4       \* output width and height are in 0..MaxGridSize
MaxTileSize == 3       \* a tile is 1..MaxTileSize wide and high

Missing_grid_images == Err("Invalid_input", "Missing_grid_images")

\* The grid data: its length, bit 0 of the flags and the fields it holds.
GridData ==
  [size : {0, 7, 8, 11, 12}, flags : {0, 1},
   rows : 1..MaxGridRows, columns : 1..MaxGridRows,
   output_width : 0..MaxGridSize, output_height : 0..MaxGridSize]

\* ImageGrid::parse: the error it returns.
ImageGrid_parse(d) ==
  IF d.size < 8 THEN Invalid_grid_data
  ELSE IF d.flags = 1 /\ d.size < 12 THEN Invalid_grid_data
  ELSE ErrorOk

\* The members of ImageGrid after parse.  A member parse has not assigned
\* was never initialised: its value is any value (here any of the model).
ImageGrids(d) ==
  { g \in [parsed : {ImageGrid_parse(d) = ErrorOk},
           m_rows : 1..MaxGridRows, m_columns : 1..MaxGridRows,
           m_output_width : 0..MaxGridSize, m_output_height : 0..MaxGridSize] :
      /\ d.size >= 8 => g.m_rows = d.rows /\ g.m_columns = d.columns
      /\ ImageGrid_parse(d) = ErrorOk =>
           g.m_output_width = d.output_width /\ g.m_output_height = d.output_height }

Min(a, b) == IF a < b THEN a ELSE b

\* The copy of a tile of size src_width x src_height at (x0, y0) into the
\* plane of a channel of the w x h image.
TileCopy(channel, w, h, x0, y0, src_width, src_height) ==
  LET copy_width == Min(src_width, w - x0)
      copy_height == Min(src_height, h - y0)
  IN  IF channel # "Y"
        THEN [channel |-> channel,
              copy_width |-> IntDiv(copy_width, 2), copy_height |-> IntDiv(copy_height, 2),
              xs |-> IntDiv(x0, 2), ys |-> IntDiv(y0, 2),
              plane_width |-> IntDiv(w, 2), plane_height |-> IntDiv(h, 2)]
        ELSE [channel |-> channel,
              copy_width |-> copy_width, copy_height |-> copy_height,
              xs |-> x0, ys |-> y0, plane_width |-> w, plane_height |-> h]

\* memcpy is called with a negative length, which becomes a huge size_t.
CopyOverruns(c) == c.copy_height > 0 /\ c.copy_width < 0

GridInit ==
  /\ gr_pc = "call" /\ grid = NoGrid
  /\ gr_loop = [x |-> 0, y |-> 0, x0 |-> 0, y0 |-> 0, tile_height |-> 0]
  /\ gr_copies = <<>>
  /\ gr_done = [used |-> FALSE, allocated |-> FALSE, tiles |-> 0]
  /\ gr_error = NoError
  /\ GridOthersIdle

\* decode_full_grid_image up to the loops.  What grid.parse returns is not
\* looked at.
decode_full_grid_image_call ==
  /\ gr_pc = "call"
  /\ \E d \in GridData, iref \in BOOLEAN, matching \in BOOLEAN :
       \E g \in ImageGrids(d) :
         /\ grid' = g
         /\ IF ~iref
              THEN /\ gr_error' = No_iref_box
                   /\ gr_pc' = "done"
                   /\ UNCHANGED gr_done
            ELSE IF ~matching
              THEN /\ gr_error' = Missing_grid_images
                   /\ gr_pc' = "done"
                   /\ gr_done' = [gr_done EXCEPT !.used = TRUE]
            ELSE /\ gr_pc' = "loop"
                 /\ gr_done' = [gr_done EXCEPT !.used = TRUE, !.allocated = TRUE]
                 /\ UNCHANGED gr_error
  /\ UNCHANGED <<gr_loop, gr_copies>>
  /\ GridFrame

\* One turn of the inner loop: the tile is decoded and copied.  After a
\* memcpy with a negative length the run ends there or goes on.
decode_full_grid_image_tile ==
  /\ gr_pc = "loop" /\ gr_loop.y < grid.m_rows
  /\ \E decoded \in {ErrorOk, TileDecodeError},
        src_width \in 1..MaxTileSize, src_height \in 1..MaxTileSize :
       IF decoded # ErrorOk
         THEN /\ gr_error' = decoded
              /\ gr_pc' = "done"
              /\ UNCHANGED <<gr_loop, gr_copies, gr_done>>
       ELSE LET copies == [i \in 1..3 |->
                             TileCopy(<<"Y", "Cb", "Cr">>[i],
                                      grid.m_output_width, grid.m_output_height,
                                      gr_loop.x0, gr_loop.y0, src_width, src_height)]
                last == gr_loop.x + 1 = grid.m_columns
            IN  /\ gr_copies' = copies
                /\ gr_done' = [gr_done EXCEPT !.tiles = @ + 1]
                /\ gr_loop' = IF last
                                THEN [x |-> 0, y |-> gr_loop.y + 1, x0 |-> 0,
                                      y0 |-> gr_loop.y0 + src_height,
                                      tile_height |-> 0]
                                ELSE [gr_loop EXCEPT !.x = @ + 1, !.x0 = @ + src_width,
                                                     !.tile_height = src_height]
                /\ UNCHANGED gr_error
                /\ \/ UNCHANGED gr_pc
                   \/ /\ \E i \in 1..3 : CopyOverruns(copies[i])
                      /\ gr_pc' = "crashed"
  /\ UNCHANGED grid
  /\ GridFrame

\* return Error::Ok after the loops
decode_full_grid_image_return ==
  /\ gr_pc = "loop" /\ ~(gr_loop.y < grid.m_rows)
  /\ gr_error' = ErrorOk
  /\ gr_pc' = "done"
  /\ UNCHANGED <<grid, gr_loop, gr_copies, gr_done>>
  /\ GridFrame

GridNext ==
  \/ decode_full_grid_image_call
  \/ decode_full_grid_image_tile
  \/ decode_full_grid_image_return

\* C22: decoding a grid item whose payload is malformed (fewer than 8 bytes,
\* or fewer than 12 with 32-bit fields) returns an error of sub-code
\* Invalid_grid_data before any tile is decoded and before the output image
\* is made; rows, columns and output size are never used after a failed
\* parse.
C22_MalformedGridRejected ==
  /\ gr_pc # "call" /\ ~grid.parsed =>
       ~gr_done.used /\ ~gr_done.allocated /\ gr_done.tiles = 0
  /\ gr_pc = "done" /\ ~grid.parsed => gr_error.sub = "Invalid_grid_data"

\* C23: each tile copy stays inside the output planes: for every channel
\* copy_width >= 0, copy_height >= 0, xs + copy_width <= plane width and
\* ys + copy_height <= plane height, also when the tiles of a row add up to
\* more than w or the rows to more than h.
C23_TileCopyInsidePlanes ==
  \A i \in 1..Len(gr_copies) :
    /\ gr_copies[i].copy_width >= 0 /\ gr_copies[i].copy_height >= 0
    /\ gr_copies[i].xs + gr_copies[i].copy_width <= gr_copies[i].plane_width
    /\ gr_copies[i].ys + gr_copies[i].copy_height <= gr_copies[i].plane_height

---------------------------------------------------------------------------
(* HeifContext::decode_image with decode_derived_image, the loops of       *)
(* decode_full_grid_image and decode_overlay_image that call it again, and *)
(* the calls into the decoder plugin (heif_context.cc).  A call of         *)
(* decode_image is a frame of dc_stack; the frame of an hvc1 item holds    *)
(* the plugin calls made for it.                                           *)

MaxDecodeItems == 2    \* the file has the items 1..MaxDecodeItems
MaxDecodeRefs == 2     \* an item has at most MaxDecodeRefs references in iref
MaxStackDepth == 3     \* the stack holds MaxStackDepth calls of decode_image

DecodeItemIDs == 1..MaxDecodeItems

\* An item: its type, the ids iref lists for it, and the id of the image
\* set as its alpha channel (0: none).  hvc1 items have no references.
DecodeItems ==
  { it \in [type : {"hvc1", "grid", "iden", "iovl"},
            refs : SeqsUpTo(DecodeItemIDs, MaxDecodeRefs),
            alpha : 0..MaxDecodeItems] :
      it.type = "hvc1" => it.refs = <<>> }

DataError == Err("Invalid_input", "No_item_data")
PluginError == Err("Decoder_plugin_error", "End_of_data")
Decoder_plugin_error == Err("Decoder_plugin_error", "Unspecified")

DecodeFrameOf(ID) ==
  [id |-> ID, stage |-> "start", idx |-> 0, err |-> ErrorOk, calls |-> <<>>]

DecodeTop == dc_stack[Len(dc_stack)]

DecodeSetTop(frame) == [dc_stack EXCEPT ![Len(dc_stack)] = frame]

DecodeReturn(frame, err) == [frame EXCEPT !.stage = "return", !.err = err]

\* A call of a plugin function and what it gave: "ok", "error" or "null".
PluginCall(frame, name, gave) ==
  [frame EXCEPT !.calls = Append(@, [call |-> name, gave |-> gave])]

\* A further call of decode_image: a new frame, or the end of the process
\* when the stack is used up.
DecodeCall(ID) ==
  IF Len(dc_stack) < MaxStackDepth
    THEN /\ dc_stack' = Append(dc_stack, DecodeFrameOf(ID))
         /\ UNCHANGED dc_pc
    ELSE /\ dc_pc' = "crashed"
         /\ UNCHANGED dc_stack

DecodeInit ==
  /\ dc_pc = "call"
  /\ dc_items \in [DecodeItemIDs -> DecodeItems]
  /\ dc_stack = <<>> /\ dc_result = NoError
  /\ DecodeOthersIdle

\* heif_decode_image / Image::decode_image: the outermost call
Image_decode_image ==
  /\ dc_pc = "call"
  /\ \E ID \in DecodeItemIDs : dc_stack' = <<DecodeFrameOf(ID)>>
  /\ dc_pc' = "run"
  /\ UNCHANGED <<dc_items, dc_result>>
  /\ DecodeFrame

\* decode_image up to the first call it makes: the branch on the item type,
\* get_decoder, the item data, and the checks decode_derived_image,
\* decode_full_grid_image and decode_overlay_image make before their loops.
decode_image_start ==
  /\ dc_pc = "run" /\ DecodeTop.stage = "start"
  /\ LET item == dc_items[DecodeTop.id]
     IN  \E found \in {ErrorOk, Unsupported_codec, DataError, Missing_grid_images,
                       Invalid_overlay_data, FillError} :
           /\ found = Unsupported_codec => item.type = "hvc1"
           /\ found = DataError => item.type # "iden"
           /\ found = Missing_grid_images =>
                item.type = "grid" \/ (item.type = "iden" /\ Len(item.refs) # 1)
           /\ item.type = "iden" /\ Len(item.refs) # 1 => found = Missing_grid_images
           /\ found \in {Invalid_overlay_data, FillError} => item.type = "iovl"
           /\ dc_stack' = DecodeSetTop(
                IF found # ErrorOk THEN DecodeReturn(DecodeTop, found)
                ELSE IF item.type = "hvc1"
                  THEN [DecodeTop EXCEPT !.stage = "new_decoder"]
                ELSE [DecodeTop EXCEPT !.stage = "tiles"])
  /\ UNCHANGED <<dc_pc, dc_items, dc_result>>
  /\ DecodeFrame

\* decoder_plugin->new_decoder(&decoder)
plugin_new_decoder ==
  /\ dc_pc = "run" /\ DecodeTop.stage = "new_decoder"
  /\ \E gave \in {"ok", "error"} :
       LET called == PluginCall(DecodeTop, "new_decoder", gave)
       IN  dc_stack' = DecodeSetTop(
             IF gave = "ok" THEN [called EXCEPT !.stage = "push_data"]
             ELSE DecodeReturn(called, PluginError))
  /\ UNCHANGED <<dc_pc, dc_items, dc_result>>
  /\ DecodeFrame

plugin_push_data_without_free ==
  /\ dc_pc = "run" /\ DecodeTop.stage = "push_data"
  /\ \E gave \in {"ok", "error"} :
       LET called == PluginCall(DecodeTop, "push_data", gave)
       IN  dc_stack' = DecodeSetTop(
             IF gave = "ok" THEN [called EXCEPT !.stage = "decode_image"]
             ELSE DecodeReturn(called, PluginError))
  /\ UNCHANGED <<dc_pc, dc_items, dc_result>>
  /\ DecodeFrame

\* decoder_plugin->push_data(decoder, data.data(), data.size())
plugin_push_data ==
  /\ dc_pc = "run" /\ DecodeTop.stage = "push_data"
  /\ \E gave \in {"ok", "error"} :
       LET called == PluginCall(DecodeTop, "push_data", gave)
       IN  dc_stack' = DecodeSetTop(
             IF gave = "ok" THEN [called EXCEPT !.stage = "decode_image"]
             ELSE [called EXCEPT !.stage = "free_decoder", !.err = PluginError])
  /\ UNCHANGED <<dc_pc, dc_items, dc_result>>
  /\ DecodeFrame

\* decoder_plugin->decode_image(decoder, &decoded_img) and the test of
\* decoded_img
plugin_decode_image ==
  /\ dc_pc = "run" /\ DecodeTop.stage = "decode_image"
  /\ \E gave \in {"ok", "error", "null"} :
       LET called == PluginCall(DecodeTop, "decode_image", gave)
       IN  dc_stack' = DecodeSetTop(
             [called EXCEPT !.stage = "free_decoder",
                            !.err = IF gave = "ok" THEN ErrorOk
                                    ELSE IF gave = "error" THEN PluginError
                                    ELSE Decoder_plugin_error])
  /\ UNCHANGED <<dc_pc, dc_items, dc_result>>
  /\ DecodeFrame

\* decoder_plugin->free_decoder(decoder), and the return that follows it
\* after an error
plugin_free_decoder ==
  /\ dc_pc = "run" /\ DecodeTop.stage = "free_decoder"
  /\ LET called == PluginCall(DecodeTop, "free_decoder", "ok")
     IN  dc_stack' = DecodeSetTop(
           IF called.err # ErrorOk THEN DecodeReturn(called, called.err)
           ELSE [called EXCEPT !.stage = "alpha"])
  /\ UNCHANGED <<dc_pc, dc_items, dc_result>>
  /\ DecodeFrame

\* The loops over the references of a grid or iovl item and the single
\* reference of an iden item: decode_image(image_references[...]), or the
\* end of the loop.
decode_image_reference ==
  /\ dc_pc = "run" /\ DecodeTop.stage = "tiles"
  /\ LET item == dc_items[DecodeTop.id]
     IN  IF DecodeTop.idx < Len(item.refs)
           THEN DecodeCall(item.refs[DecodeTop.idx + 1])
           ELSE /\ dc_stack' = DecodeSetTop([DecodeTop EXCEPT !.stage = "alpha"])
                /\ UNCHANGED dc_pc
  /\ UNCHANGED <<dc_items, dc_result>>
  /\ DecodeFrame

\* "add alpha channel, if available": alpha_image->decode_image(alpha)
decode_image_alpha ==
  /\ dc_pc = "run" /\ DecodeTop.stage = "alpha"
  /\ LET item == dc_items[DecodeTop.id]
     IN  IF item.alpha # 0
           THEN DecodeCall(item.alpha)
           ELSE /\ dc_stack' = DecodeSetTop([DecodeTop EXCEPT !.stage = "transform"])
                /\ UNCHANGED dc_pc
  /\ UNCHANGED <<dc_items, dc_result>>
  /\ DecodeFrame

\* "apply image transformations" and return Error::Ok
decode_image_transform ==
  /\ dc_pc = "run" /\ DecodeTop.stage = "transform"
  /\ \E transformed \in {ErrorOk, TransformError, Invalid_clean_aperture} :
       dc_stack' = DecodeSetTop(DecodeReturn(DecodeTop, transformed))
  /\ UNCHANGED <<dc_pc, dc_items, dc_result>>
  /\ DecodeFrame

\* A call of decode_image returns to its caller: the caller returns the
\* error, or goes on with the next reference (an iovl item after the colour
\* conversion and the blit), or with the transformations after the alpha
\* image.
decode_image_return ==
  /\ dc_pc = "run" /\ DecodeTop.stage = "return"
  /\ IF Len(dc_stack) = 1
       THEN /\ dc_pc' = "done"
            /\ dc_result' = DecodeTop.err
            /\ UNCHANGED dc_stack
       ELSE LET caller == dc_stack[Len(dc_stack) - 1]
                popped == SubSeq(dc_stack, 1, Len(dc_stack) - 1)
            IN  /\ \E blit \in {ErrorOk, BlitError, Unsupported_color_conversion} :
                     /\ blit # ErrorOk =>
                          /\ dc_items[caller.id].type = "iovl"
                          /\ caller.stage = "tiles" /\ DecodeTop.err = ErrorOk
                     /\ dc_stack' = [popped EXCEPT ![Len(popped)] =
                          IF DecodeTop.err # ErrorOk THEN DecodeReturn(caller, DecodeTop.err)
                          ELSE IF blit # ErrorOk THEN DecodeReturn(caller, blit)
                          ELSE IF caller.stage = "tiles"
                            THEN [caller EXCEPT !.idx = @ + 1]
                          ELSE [caller EXCEPT !.stage = "transform"]]
                /\ UNCHANGED <<dc_pc, dc_result>>
  /\ UNCHANGED dc_items
  /\ DecodeFrame

DecodeNext ==
  \/ Image_decode_image
  \/ decode_image_start
  \/ plugin_new_decoder
  \/ plugin_push_data
  \/ plugin_decode_image
  \/ plugin_free_decoder
  \/ decode_image_reference
  \/ decode_image_alpha
  \/ decode_image_transform
  \/ decode_image_return

PluginStages == {"new_decoder", "push_data", "decode_image", "free_decoder"}

\* The names of the plugin calls of a frame, in the order they were made.
CallNames(frame) == [i \in 1..Len(frame.calls) |-> frame.calls[i].call]

PluginOrder == <<"new_decoder", "push_data", "decode_image", "free_decoder">>

IsPrefix(s, t) == Len(s) <= Len(t) /\ \A i \in 1..Len(s) : s[i] = t[i]

\* C25: in decoding an hvc1 item the plugin calls are new_decoder,
\* push_data, decode_image, free_decoder in this order, each at most once;
\* whenever new_decoder succeeded, free_decoder has been called exactly once
\* when decode_image returns and is the last plugin call; when new_decoder
\* failed no other plugin call is made; a null image gives
\* Decoder_plugin_error.
C25_PluginCallOrder ==
  \A k \in 1..Len(dc_stack) :
    LET frame == dc_stack[k]
        names == CallNames(frame)
        n == Len(names)
    IN  /\ \/ IsPrefix(names, PluginOrder)
           \/ names = <<"new_decoder", "push_data", "free_decoder">>
        /\ n >= 1 /\ frame.calls[1].gave # "ok" => n = 1
        /\ n >= 1 /\ frame.calls[1].gave = "ok" /\ frame.stage \notin PluginStages =>
             names[n] = "free_decoder"
        /\ frame.stage = "return" /\ n >= 3 /\ frame.calls[3].gave = "null" =>
             frame.err = Decoder_plugin_error

\* a decode in which the plugin returned no image has returned
C25_Witness ==
  /\ dc_pc = "done" /\ Len(DecodeTop.calls) = 4
  /\ DecodeTop.calls[3].gave = "null"

\* C26: decode_image(id) terminates, returning an image or an error, for
\* every item of every file, also when the references of iden, grid or
\* iovl items or the alpha links form a cycle.
C26_DecodeTerminates == <>(dc_pc = "done")

---------------------------------------------------------------------------
(* Further properties of HeifContext::interpret_heif_file.                 *)

\* C27: after interpret_heif_file has returned Ok, every image that is the
\* from-item of a thmb or auxl reference of iref, wherever that reference
\* stands among the references of the item, is out of the top-level list.
C27_LinkedImagesNotTopLevel ==
  InterpOk => \A x \in iref_linked : x \notin TopLevelSet

\* C28: interpret_heif_file never goes through the end() of the image
\* table, and after it has returned Ok the target of every alpha and every
\* depth image is an image of the table.
C28_AuxTargetsInTable ==
  /\ ih_pc # "crashed"
  /\ InterpOk =>
       \A x \in ImageIDs :
         /\ m_all_images[x].m_is_alpha_channel =>
              m_all_images[x].m_alpha_channel_ref_id \in ImageIDs
         /\ m_all_images[x].m_is_depth_channel =>
              m_all_images[x].m_depth_channel_ref_id \in ImageIDs

\* C30: after interpret_heif_file has returned Ok the primary image is in
\* the top-level list.
C30_PrimaryIsTopLevel ==
  InterpOk => m_primary_image \in TopLevelSet

---------------------------------------------------------------------------
(* HeifContext::read_from_file and read_from_memory on one context, with   *)
(* interpret_heif_file as far as it touches the image state of the         *)
(* context (heif_context.cc).  The reference loop is held as its outcome:  *)
(* the images it has removed from the top-level list when it returns.      *)

MaxOpenCalls == 3      \* open calls made on one context
MaxOpenItemID == 2     \* the items of a file have the ids 1..MaxOpenItemID

OpenParseError == Err("Invalid_input", "No_ftyp_box")
OpenInterpretError == Err("Invalid_input", "Unspecified")
Nonexisting_image_referenced == Err("Invalid_input", "Nonexisting_image_referenced")

\* What HeifFile holds after read_from_memory: for every id "none", "image",
\* "hidden" (a hidden image item) or "other"; the id of pitm; the error of
\* the parse.
OpenFiles ==
  [items : [1..MaxOpenItemID -> {"none", "image", "hidden", "other"}],
   pitm : 0..MaxOpenItemID,
   parsed : {ErrorOk, OpenParseError}]

OpenImageIDs(file) ==
  {id \in DOMAIN file.items : file.items[id] \in {"image", "hidden"}}

\* The ids of S in rising order.
SortedIDs(S) == SelectSeq([i \in 1..MaxOpenItemID + 1 |-> i], LAMBDA i : i \in S)

\* interpret_heif_file, the first loop: all images, the non-hidden ones as
\* top-level images, the primary image when it is one of those.
interpret_first_loop(file) ==
  [m_heif_file |-> file,
   m_all_images |-> OpenImageIDs(file),
   m_top_level_images |-> SortedIDs({id \in OpenImageIDs(file) : file.items[id] = "image"}),
   m_primary_image |->
     IF file.pitm \in OpenImageIDs(file) /\ file.items[file.pitm] = "image"
       THEN file.pitm ELSE 0]

\* interpret_heif_file: the tables are cleared and built again; it returns
\* when there is no primary image, or after the reference loop has removed
\* the images of `removed` from the top-level list and the later loops
\* have given `later`.
interpret_heif_file(file, removed, later) ==
  LET first == interpret_first_loop(file)
  IN  IF first.m_primary_image = 0
        THEN [ctx |-> first, err |-> Nonexisting_image_referenced]
        ELSE [ctx |-> [first EXCEPT !.m_top_level_images =
                         SelectSeq(@, LAMBDA id : id \notin removed)],
              err |-> later]

\* The body of read_from_file and of read_from_memory: a new HeifFile, its
\* parse, and interpret_heif_file when the parse gave no error.
OpenCall(file, removed, later) ==
  IF file.parsed # ErrorOk
    THEN [ctx |-> [context EXCEPT !.m_heif_file = file], err |-> file.parsed]
    ELSE interpret_heif_file(file, removed, later)

OpenInit ==
  /\ context = [m_heif_file |-> NoOpenFile, m_all_images |-> {},
                m_top_level_images |-> <<>>, m_primary_image |-> 0]
  /\ open_calls = 0 /\ open_error = NoError
  /\ OpenOthersIdle

HeifContext_read_from_file ==
  /\ open_calls < MaxOpenCalls
  /\ \E file \in OpenFiles, removed \in SUBSET (1..MaxOpenItemID),
        later \in {ErrorOk, OpenInterpretError} :
       /\ removed \subseteq OpenImageIDs(file)
       /\ context' = OpenCall(file, removed, later).ctx
       /\ open_error' = OpenCall(file, removed, later).err
  /\ open_calls' = open_calls + 1
  /\ OpenFrame

HeifContext_read_from_memory ==
  /\ open_calls < MaxOpenCalls
  /\ \E file \in OpenFiles, removed \in SUBSET (1..MaxOpenItemID),
        later \in {ErrorOk, OpenInterpretError} :
       /\ removed \subseteq OpenImageIDs(file)
       /\ context' = OpenCall(file, removed, later).ctx
       /\ open_error' = OpenCall(file, removed, later).err
  /\ open_calls' = open_calls + 1
  /\ OpenFrame

OpenNext ==
  \/ HeifContext_read_from_file
  \/ HeifContext_read_from_memory

\* C29: after any sequence of open calls on one context the image state is
\* that of the file of the most recent call: after a call that returned Ok
\* the table holds the images of that file, and after a call that returned
\* an error, from the parse or from the interpretation, the context has no
\* primary image and no top-level image.
C29_StateOfLastOpen ==
  /\ open_error = ErrorOk =>
       context.m_all_images = OpenImageIDs(context.m_heif_file)
  /\ open_error \notin {ErrorOk, NoError} =>
       /\ context.m_primary_image = 0
       /\ context.m_top_level_images = <<>>

---------------------------------------------------------------------------
(* The specifications.                                                     *)

SpecParse == ParseInit /\ [][ParseNext]_vars

SpecChildren == ChildInit /\ [][ChildNext]_vars

SpecIloc == IlocInit /\ [][IlocNext]_vars

SpecData == DataInit /\ [][DataNext]_vars

SpecInterp == InterpInit /\ [][InterpNext]_vars

SpecFraction == FracInit /\ [][FracNext]_vars

SpecClap == ClapInit /\ [][ClapNext]_vars

SpecHvcC == HvccInit /\ [][HvccNext]_vars

SpecOverlay == OverlayInit /\ [][OverlayNext]_vars

SpecPlugin == PluginInit /\ [][PluginNext]_vars

SpecBoxRead == BoxReadInit /\ [][BoxReadNext]_vars

SpecIpma == IpmaInit /\ [][IpmaNext]_vars

SpecResolution == ResInit /\ [][ResNext]_vars

SpecGrid == GridInit /\ [][GridNext]_vars

SpecDecode == DecodeInit /\ [][DecodeNext]_vars

SpecDecodeFair == SpecDecode /\ WF_vars(DecodeNext)

SpecOpen == OpenInit /\ [][OpenNext]_vars

=============================================================================
